---- MODULE Spec2Model ----
(***************************************************************************)
(* A model of dds (destroy_ds_stores): the directory cache, the session    *)
(* registry, the persistent work queue, the found-file log (src/cache.rs)  *)
(* and the progressive traversal driver with its directory probes and the  *)
(* deletion step (src/lib.rs).                                             *)
(*                                                                         *)
(* The durable tables survive a process; everything else is the memory of  *)
(* one process and is lost when it exits or crashes.                       *)
(***************************************************************************)
EXTENDS Integers, Sequences, FiniteSets, TLC

(***************************************************************************)
(* Bounds of the model.                                                    *)
(***************************************************************************)
\* Number of process invocations (runs of the binary) in one behaviour.
MaxRuns == 2
\* Number of clock advances; each advance moves just past the window.
MaxTicks == 1
\* Number of incidents in one behaviour: an interruption (a cancellation or
\* a crash) or a probe fault (a timeout or a failing directory read).
MaxIncidents == 1
\* The runs in which an incident may happen: the first IncidentRuns ones.
IncidentRuns == 1
\* The freshness window in hours (config.rs default 168, CLI --cache-hours).
WindowHours == 1
\* WORK_BATCH_SIZE (50 in the source), scaled to the size of the tree.
WORK_BATCH_SIZE == 2
\* TASK_BATCH_SIZE (100 in the source), scaled to the size of the tree.
TASK_BATCH_SIZE == 2

SecondsPerHour == 3600
TickStep == WindowHours * SecondsPerHour + 1

(***************************************************************************)
(* The file system that is scanned: /t with the directories a, b, b/c and  *)
(* a symbolic link x -> /t.  The sentinel files are state (the deletion    *)
(* step removes them).                                                     *)
(***************************************************************************)
Root == "/t"
Paths == {"/t", "/t/a", "/t/b", "/t/b/c", "/t/x"}

\* What metadata / symlink_metadata say about a path that is probed.
PathKind(p) ==
    CASE p = "/t/x"    -> "symlink"
      [] p = "/t/f"    -> "file"
      [] p = "/t/gone" -> "missing"
      [] OTHER         -> "dir"

\* The entries read_dir yields, in the order it yields them.
DirEntries(p) ==
    CASE p = "/t"   -> <<"/t/a", "/t/b", "/t/x">>
      [] p = "/t/b" -> <<"/t/b/c">>
      [] OTHER      -> << >>

\* entry.file_type(): it does not follow links.
EntryType(e) == IF e = "/t/x" THEN "symlink" ELSE "dir"

\* is_system_path: of the paths that are probed only /t/.Trash matches a
\* pattern; none of the paths of the tree does.
is_system_path(p) == p = "/t/.Trash"

\* The sentinel file of a directory.
DsStore(p) == p \o "/.DS_Store"
\* hit.parent()
ParentOf(f) == CHOOSE p \in Paths : DsStore(p) = f

\* path LIKE root || '%': the paths of the tree with the string prefix root.
HasPrefix(p, r) ==
    \/ p = r
    \/ r = "/t"
    \/ r = "/t/b" /\ p = "/t/b/c"

\* The sentinel files of the tree at the start.
InitialFiles == {"/t/a", "/t/b/c"}
\* The directories a recursive scan from the root reaches.
ReachableDirs == {"/t", "/t/a", "/t/b", "/t/b/c"}

(***************************************************************************)
(* Sequence helpers.                                                       *)
(***************************************************************************)
Range(s) == {s[i] : i \in DOMAIN s}

RemoveAt(s, i) == SubSeq(s, 1, i - 1) \o SubSeq(s, i + 1, Len(s))

(***************************************************************************)
(* Directory cache (table directory_cache and the in-memory hot set).      *)
(***************************************************************************)
NULL == "NULL"

\* cutoff = now - window_hours * 3600
Cutoff(t) == t - WindowHours * SecondsPerHour

NewRow(t, completed, found, deleted, err) ==
    [last_searched_at |-> t, search_completed |-> completed,
     ds_store_found |-> found, ds_store_deleted |-> deleted,
     error_message |-> err]

DirState(p, t, completed, found, deleted, err) ==
    [path |-> p, last_searched_at |-> t, search_completed |-> completed,
     ds_store_found |-> found, ds_store_deleted |-> deleted,
     error_message |-> err]

\* Cache::load_fresh_complete_dirs
load_fresh_complete_dirs(dc, t) ==
    {p \in DOMAIN dc : dc[p].last_searched_at > Cutoff(t) /\ dc[p].search_completed}

\* Cache::validate_integrity: the repair of rows deleted without being found.
validate_integrity(dc) ==
    [p \in DOMAIN dc |->
        IF dc[p].ds_store_deleted /\ ~dc[p].ds_store_found
        THEN [dc[p] EXCEPT !.ds_store_deleted = FALSE]
        ELSE dc[p]]

\* A classification that takes no completed row for fresh.
get_directory_status_CompletedAsStale(force, hot, dc, t, p) ==
    IF force THEN "NotCached"
    ELSE IF p \notin DOMAIN dc THEN "NotCached"
    ELSE IF ~dc[p].search_completed THEN "Incomplete"
    ELSE "Stale"

\* A classification that does not look at force_refresh.
get_directory_status_IgnoringForce(force, hot, dc, t, p) ==
    IF p \in hot THEN "Fresh"
    ELSE IF p \notin DOMAIN dc THEN "NotCached"
    ELSE IF ~dc[p].search_completed THEN "Incomplete"
    ELSE IF dc[p].last_searched_at <= Cutoff(t) THEN "Stale"
    ELSE "Fresh"

\* Cache::get_directory_status
get_directory_status(force, hot, dc, t, p) ==
    IF force THEN "NotCached"
    ELSE IF p \in hot THEN "Fresh"
    ELSE IF p \notin DOMAIN dc THEN "NotCached"
    ELSE IF ~dc[p].search_completed THEN "Incomplete"
    ELSE IF dc[p].last_searched_at <= Cutoff(t) THEN "Stale"
    ELSE "Fresh"

\* Cache::should_skip
should_skip(hot, p) == p \in hot

\* Cache::mark_searching, the row
\* An upsert that also clears the error of the row.
mark_searching_rows_ClearsError(dc, p, t) ==
    IF p \in DOMAIN dc
    THEN [dc EXCEPT ![p].last_searched_at = t, ![p].search_completed = FALSE,
                    ![p].error_message = NULL]
    ELSE (p :> NewRow(t, FALSE, FALSE, FALSE, NULL)) @@ dc

mark_searching_rows(dc, p, t) ==
    IF p \in DOMAIN dc
    THEN [dc EXCEPT ![p].last_searched_at = t, ![p].search_completed = FALSE]
    ELSE (p :> NewRow(t, FALSE, FALSE, FALSE, NULL)) @@ dc

\* An upsert whose conflict clause takes ds_store_deleted from the found
\* column of the row it replaces.
mark_completed_rows_DeletedFromOldFound(dc, p, t, found, deleted) ==
    IF p \in DOMAIN dc
    THEN (p :> NewRow(t, TRUE, found, dc[p].ds_store_found /\ deleted, NULL)) @@ dc
    ELSE (p :> NewRow(t, TRUE, found, deleted, NULL)) @@ dc

\* Cache::mark_completed, the row
mark_completed_rows(dc, p, t, found, deleted) ==
    (p :> NewRow(t, TRUE, found, deleted, NULL)) @@ dc

\* Cache::mark_completed, the hot set
mark_completed_hot(hot, p) == hot \cup {p}

\* Cache::mark_error, the row
mark_error_rows(dc, p, t, err) ==
    IF p \in DOMAIN dc
    THEN [dc EXCEPT ![p].last_searched_at = t, ![p].search_completed = TRUE,
                    ![p].error_message = err]
    ELSE (p :> NewRow(t, TRUE, FALSE, FALSE, err)) @@ dc

\* One upsert of mark_completed_batch.
UpsertState(dc, s) ==
    (s.path :> NewRow(s.last_searched_at, s.search_completed, s.ds_store_found,
                      s.ds_store_deleted, s.error_message)) @@ dc

RECURSIVE mark_completed_batch_rows(_, _)
\* Cache::mark_completed_batch, the rows (the states are upserted in order).
mark_completed_batch_rows(dc, states) ==
    IF states = << >> THEN dc
    ELSE mark_completed_batch_rows(UpsertState(dc, Head(states)), Tail(states))

\* Cache::mark_completed_batch, the hot set
mark_completed_batch_hot(hot, states) ==
    hot \cup {states[i].path : i \in {j \in DOMAIN states : states[j].search_completed}}

\* The driver's dry-run variant of a batch: ds_store_deleted forced to false.
DryRunStates(states) ==
    [i \in DOMAIN states |-> [states[i] EXCEPT !.ds_store_deleted = FALSE]]

\* Cache::clear_incomplete
clear_incomplete(dc) ==
    [p \in {q \in DOMAIN dc : dc[q].search_completed} |-> dc[p]]

\* Cache::cleanup_old_entries: rows older than twice the window are deleted.
cleanup_old_entries(dc, t) ==
    [p \in {q \in DOMAIN dc :
              ~(dc[q].last_searched_at < t - WindowHours * (2 * SecondsPerHour))}
       |-> dc[p]]

\* Cache::get_undeleted_ds_store_files
get_undeleted_ds_store_files(dc, root, recursive) ==
    {DsStore(p) : p \in {q \in DOMAIN dc :
        /\ dc[q].ds_store_found /\ ~dc[q].ds_store_deleted /\ dc[q].search_completed
        /\ IF recursive THEN HasPrefix(q, root) ELSE q = root}}

(***************************************************************************)
(* Session registry (table search_sessions), work queue (table work_queue) *)
(* and found-file log (table found_files).                                 *)
(***************************************************************************)
\* current_session: None
NoSession == 0
\* completed_at: NULL
NoTime == 0 - 1

\* Cache::cleanup_session on each table
cleanup_session_queue(wq, sid) == {r \in wq : r.session_id # sid}
cleanup_session_found(ff, sid) == SelectSeq(ff, LAMBDA r : r.session_id # sid)
cleanup_session_rows(ss, sid) == [s \in DOMAIN ss \ {sid} |-> ss[s]]

\* A clean-up that looks at interrupted sessions only.
StaleSessions_OnlyInterrupted(ss, t) ==
    {s \in DOMAIN ss : ss[s].started_at < Cutoff(t) /\ ss[s].status = "interrupted"}

\* Cache::cleanup_stale_sessions: the sessions it cleans up.
StaleSessions(ss, t) ==
    {s \in DOMAIN ss : ss[s].started_at < Cutoff(t) /\ ss[s].status # "completed"}

\* An insert that does not look for a row of the same path and session.
enqueue_work_AlwaysInserts(q, sid, p, priority) ==
    [rows |-> q.rows \cup {[id |-> q.seq + 1, path |-> p,
                            priority |-> priority, session_id |-> sid]},
     seq  |-> q.seq + 1]

\* An insert into a table without the UNIQUE(path, session_id) constraint.
enqueue_work_WithoutUnique(q, sid, p, priority) ==
    [rows |-> q.rows \cup {[id |-> q.seq + 1, path |-> p,
                            priority |-> priority, session_id |-> sid]},
     seq  |-> q.seq + 1]

\* Cache::enqueue_work: INSERT OR IGNORE on UNIQUE(path, session_id).  The
\* result is the table and the last id AUTOINCREMENT has given out.
enqueue_work(q, sid, p, priority) ==
    IF \E r \in q.rows : r.path = p /\ r.session_id = sid
    THEN q
    ELSE [rows |-> q.rows \cup {[id |-> q.seq + 1, path |-> p,
                                 priority |-> priority, session_id |-> sid]},
          seq  |-> q.seq + 1]

RECURSIVE enqueue_work_batch(_, _, _, _)
\* Cache::enqueue_work_batch
enqueue_work_batch(q, sid, paths, priority) ==
    IF paths = << >> THEN q
    ELSE enqueue_work_batch(enqueue_work(q, sid, Head(paths), priority),
                            sid, Tail(paths), priority)

\* An order by id alone.
QueueBefore_IdOnly(r1, r2) == r1.id < r2.id

\* ORDER BY priority DESC, id ASC
QueueBefore(r1, r2) ==
    \/ r1.priority > r2.priority
    \/ r1.priority = r2.priority /\ r1.id < r2.id

RECURSIVE SortedRows(_)
SortedRows(rows) ==
    IF rows = {} THEN << >>
    ELSE LET first == CHOOSE r \in rows : \A o \in rows \ {r} : QueueBefore(r, o)
         IN  <<first>> \o SortedRows(rows \ {first})

\* Cache::peek_work_batch
peek_work_batch(wq, sid, n) ==
    LET sorted == SortedRows({r \in wq : r.session_id = sid})
    IN  SubSeq(sorted, 1, IF Len(sorted) < n THEN Len(sorted) ELSE n)

\* A delete that empties the table.
remove_work_items_WholeQueue(wq, ids) == IF ids = {} THEN wq ELSE {}

\* Cache::remove_work_items
remove_work_items(wq, ids) == {r \in wq : r.id \notin ids}

\* A count that finds no row.
get_work_count_Zero(wq, sid) == 0

\* Cache::get_work_count
get_work_count(wq, sid) == Cardinality({r \in wq : r.session_id = sid})

\* An append that inserts every path of the list, logged already or not.
save_found_files_WithoutIgnore(ff, sid, files) ==
    ff \o [i \in DOMAIN files |-> [session_id |-> sid, file_path |-> files[i]]]

RECURSIVE save_found_files(_, _, _)
\* Cache::save_found_files: INSERT OR IGNORE on UNIQUE(session_id, file_path)
save_found_files(ff, sid, files) ==
    IF files = << >> THEN ff
    ELSE LET row == [session_id |-> sid, file_path |-> Head(files)]
         IN  save_found_files(IF row \in Range(ff) THEN ff ELSE Append(ff, row),
                              sid, Tail(files))

\* A load that returns every logged match twice.
load_found_files_Twice(ff, sid) ==
    LET mine == SelectSeq(ff, LAMBDA r : r.session_id = sid)
    IN  [i \in 1..(2 * Len(mine)) |-> mine[((i - 1) % Len(mine)) + 1].file_path]

\* Cache::load_found_files
load_found_files(ff, sid) ==
    LET mine == SelectSeq(ff, LAMBDA r : r.session_id = sid)
    IN  [i \in DOMAIN mine |-> mine[i].file_path]

\* Cache::get_session_searched_count
get_session_searched_count(ss, dc, sid, t) ==
    IF sid \in DOMAIN ss
    THEN LET end_time == IF ss[sid].completed_at = NoTime THEN t
                         ELSE ss[sid].completed_at
         IN  Cardinality({p \in DOMAIN dc :
                 /\ dc[p].last_searched_at >= ss[sid].started_at
                 /\ dc[p].last_searched_at <= end_time
                 /\ dc[p].search_completed})
    ELSE 0

\* A lookup by root alone.
ResumeCandidates_AnyTriple(ss, root, recursive, dry) ==
    LET match == {s \in DOMAIN ss :
                    ss[s].root_path = root /\ ss[s].status = "interrupted"}
    IN  {s \in match : \A o \in match : ss[o].started_at <= ss[s].started_at}

\* Cache::resume_session: the interrupted sessions of the triple with the
\* latest started_at (ORDER BY started_at DESC LIMIT 1).
ResumeCandidates(ss, root, recursive, dry) ==
    LET match == {s \in DOMAIN ss :
                    /\ ss[s].root_path = root /\ ss[s].status = "interrupted"
                    /\ ss[s].is_recursive = recursive /\ ss[s].is_dry_run = dry}
    IN  {s \in match : \A o \in match : ss[o].started_at <= ss[s].started_at}

\* Cache::resume_session: whether the chosen session is resumed.
Resumable(wq, ff, sid) ==
    get_work_count(wq, sid) > 0 \/ Len(load_found_files(ff, sid)) > 0

(***************************************************************************)
(* State.                                                                  *)
(***************************************************************************)
VARIABLES
    \* the file system and the clock
    files,              \* directories that hold a .DS_Store file
    now,                \* Utc::now().timestamp()
    \* the database
    directory_cache,    \* path -> row
    work_queue,         \* [rows, seq]: the rows and AUTOINCREMENT's last id
    search_sessions,    \* session id -> row
    found_files_tbl,    \* rows of found_files in insertion order
    session_seq,        \* number of session ids allocated (Uuid::new_v4)
    \* the memory of the running process
    pc,                 \* where the driver is; "idle": no process runs
    opts,               \* [root, recursive, dry_run, force]
    fresh_complete_dirs,\* Cache.fresh_complete_dirs, the hot set
    current_session,    \* Cache.current_session
    session_id,         \* the driver's session_id
    stats,              \* SearchStats
    found_files,        \* Vec<PathBuf> shared with the probes
    completed_dirs,     \* Vec<DirectoryState> shared with the probes
    processing_dirs,    \* HashSet<PathBuf> shared with the probes
    subdirs_queue,      \* Vec<(String, Vec<PathBuf>)> shared with the probes
    tasks,              \* Vec<JoinHandle>: the probes and their positions
    items_to_process,   \* the accepted items not yet spawned
    cancelled,          \* the cancellation token
    cached_undeleted,   \* bye_bye_ds_stores: cached_undeleted_files
    returned,           \* what find_ds_stores_progressive returned
    \* bookkeeping of the behaviour
    runs, ticks, interrupts, faults,
    probed,             \* paths whose probe ran to its end in this run
    run_info,           \* how this run started
    hist                \* one summary per run that has ended

dbvars  == <<directory_cache, work_queue, search_sessions, found_files_tbl, session_seq>>
memvars == <<pc, opts, fresh_complete_dirs, current_session, session_id, stats,
             found_files, completed_dirs, processing_dirs, subdirs_queue, tasks,
             items_to_process, cancelled, cached_undeleted, returned>>
envvars == <<files, now, runs, ticks, interrupts, faults>>
ghostvars == <<probed, run_info, hist>>
vars == <<dbvars, memvars, envvars, ghostvars>>

ZeroStats == [new_searches |-> 0, resumed_searches |-> 0, skipped_cached |-> 0,
              found |-> 0, errors |-> 0]
NoOpts == [root |-> Root, recursive |-> FALSE, dry_run |-> FALSE, force |-> FALSE]
NoRunInfo == [empty_start |-> FALSE, started |-> 0, resumed |-> FALSE,
              faulty |-> FALSE, root_done_at_cancel |-> FALSE,
              exit_with_buffer |-> FALSE, spawned |-> {}]

\* The memory of a process that does not run.
MemoryGone ==
    /\ pc' = "idle"
    /\ opts' = NoOpts
    /\ fresh_complete_dirs' = {}
    /\ current_session' = NoSession
    /\ session_id' = NoSession
    /\ stats' = ZeroStats
    /\ found_files' = << >>
    /\ completed_dirs' = << >>
    /\ processing_dirs' = {}
    /\ subdirs_queue' = << >>
    /\ tasks' = << >>
    /\ items_to_process' = << >>
    /\ cancelled' = FALSE
    /\ cached_undeleted' = {}
    /\ returned' = << >>
    /\ probed' = {}
    /\ run_info' = NoRunInfo

Init ==
    /\ files = InitialFiles
    /\ now = 0
    /\ directory_cache = << >>
    /\ work_queue = [rows |-> {}, seq |-> 0]
    /\ search_sessions = << >>
    /\ found_files_tbl = << >>
    /\ session_seq = 0
    /\ pc = "idle"
    /\ opts = NoOpts
    /\ fresh_complete_dirs = {}
    /\ current_session = NoSession
    /\ session_id = NoSession
    /\ stats = ZeroStats
    /\ found_files = << >>
    /\ completed_dirs = << >>
    /\ processing_dirs = {}
    /\ subdirs_queue = << >>
    /\ tasks = << >>
    /\ items_to_process = << >>
    /\ cancelled = FALSE
    /\ cached_undeleted = {}
    /\ returned = << >>
    /\ runs = 0 /\ ticks = 0 /\ interrupts = 0 /\ faults = 0
    /\ probed = {}
    /\ run_info = NoRunInfo
    /\ hist = << >>

\* The command lines a run is started with (cli.rs: --recursive, --dry,
\* --force).
CommandLines ==
    {[recursive |-> TRUE,  dry_run |-> TRUE,  force |-> FALSE],
     [recursive |-> TRUE,  dry_run |-> FALSE, force |-> FALSE],
     [recursive |-> FALSE, dry_run |-> TRUE,  force |-> FALSE],
     [recursive |-> TRUE,  dry_run |-> TRUE,  force |-> TRUE]}

(***************************************************************************)
(* Process start: main builds the cache, bye_bye_ds_stores reads the       *)
(* cached undeleted files, find_ds_stores_progressive resumes or starts a  *)
(* session.                                                                *)
(***************************************************************************)
\* Cache::new and the head of bye_bye_ds_stores.  A behaviour ends with the
\* run that had a probe fault, and --force is tried where it makes a
\* difference, on a cache that has rows.
StartProcess(recursive, dry, force) ==
    /\ pc = "idle"
    /\ runs < MaxRuns
    /\ faults = 0
    /\ force => DOMAIN directory_cache # {}
    /\ runs' = runs + 1
    /\ fresh_complete_dirs' =
          IF force THEN {} ELSE load_fresh_complete_dirs(directory_cache, now)
    /\ directory_cache' = validate_integrity(directory_cache)
    /\ opts' = [root |-> Root, recursive |-> recursive, dry_run |-> dry, force |-> force]
    /\ cached_undeleted' =
          IF ~dry THEN get_undeleted_ds_store_files(directory_cache', Root, recursive)
          ELSE {}
    /\ run_info' = [NoRunInfo EXCEPT !.empty_start = (DOMAIN directory_cache = {}),
                                     !.started = now]
    /\ pc' = "startup"
    /\ UNCHANGED <<work_queue, search_sessions, found_files_tbl, session_seq,
                   current_session, session_id, stats, found_files, completed_dirs,
                   processing_dirs, subdirs_queue, tasks, items_to_process,
                   cancelled, returned, files, now, ticks, interrupts, faults,
                   probed, hist>>

\* Cache::resume_session returning Some(id), and the loads that follow it.
StartupResume ==
    /\ pc = "startup"
    /\ \E sid \in ResumeCandidates(search_sessions, opts.root, opts.recursive, opts.dry_run) :
         /\ Resumable(work_queue.rows, found_files_tbl, sid)
         /\ search_sessions' = [search_sessions EXCEPT ![sid].status = "active"]
         /\ current_session' = sid
         /\ session_id' = sid
         /\ LET previously_found == load_found_files(found_files_tbl, sid)
                work_remaining == get_work_count(work_queue.rows, sid)
                searched_count == get_session_searched_count(
                                      search_sessions', directory_cache, sid, now)
            IN  /\ found_files' = previously_found
                /\ stats' = [stats EXCEPT
                       !.found = @ + Len(previously_found),
                       !.skipped_cached =
                           @ + IF work_remaining = 0 THEN searched_count ELSE 0]
    /\ run_info' = [run_info EXCEPT !.resumed = TRUE]
    /\ pc' = "check"
    /\ UNCHANGED <<directory_cache, work_queue, found_files_tbl, session_seq, opts,
                   fresh_complete_dirs, completed_dirs, processing_dirs,
                   subdirs_queue, tasks, items_to_process, cancelled,
                   cached_undeleted, returned, envvars, probed, hist>>

\* Cache::start_session: the stale sessions are cleaned up, the new row is
\* inserted as active, the root is enqueued.
start_session(db, sid, root, recursive, dry, t) ==
    LET stale == StaleSessions(db.ss, t)
        ss1 == [s \in DOMAIN db.ss \ stale |-> db.ss[s]]
        q1  == [db.q EXCEPT !.rows = {r \in @ : r.session_id \notin stale}]
        ff1 == SelectSeq(db.ff, LAMBDA r : r.session_id \notin stale)
        row == [root_path |-> root, started_at |-> t, completed_at |-> NoTime,
                is_recursive |-> recursive, is_dry_run |-> dry, status |-> "active"]
    IN  [ss |-> (sid :> row) @@ ss1,
         q  |-> enqueue_work(q1, sid, root, 0),
         ff |-> ff1]

\* Cache::resume_session returning None (after the clean-up of a session
\* with nothing to resume, if one was chosen), then Cache::start_session and
\* the driver's own enqueue of the root.
StartupNew ==
    /\ pc = "startup"
    /\ LET cands == ResumeCandidates(search_sessions, opts.root,
                                     opts.recursive, opts.dry_run)
       IN  \E pick \in (IF cands = {} THEN {NoSession} ELSE cands) :
             /\ IF pick = NoSession THEN TRUE
                ELSE ~Resumable(work_queue.rows, found_files_tbl, pick)
             /\ LET db0 == IF pick = NoSession
                           THEN [ss |-> search_sessions, q |-> work_queue,
                                 ff |-> found_files_tbl]
                           ELSE [ss |-> cleanup_session_rows(search_sessions, pick),
                                 q  |-> [work_queue EXCEPT
                                           !.rows = cleanup_session_queue(@, pick)],
                                 ff |-> cleanup_session_found(found_files_tbl, pick)]
                    sid == session_seq + 1
                    db1 == start_session(db0, sid, opts.root, opts.recursive,
                                         opts.dry_run, now)
                IN  /\ search_sessions' = db1.ss
                    /\ work_queue' = enqueue_work(db1.q, sid, opts.root, 0)
                    /\ found_files_tbl' = db1.ff
                    /\ session_seq' = sid
                    /\ current_session' = sid
                    /\ session_id' = sid
    /\ pc' = "check"
    /\ UNCHANGED <<directory_cache, opts, fresh_complete_dirs, stats, found_files,
                   completed_dirs, processing_dirs, subdirs_queue, tasks,
                   items_to_process, cancelled, cached_undeleted, returned,
                   envvars, ghostvars>>

(***************************************************************************)
(* Session end.                                                            *)
(***************************************************************************)
\* Cache::complete_session, the session rows
complete_session_rows(ss, cur, t) ==
    IF cur # NoSession /\ cur \in DOMAIN ss
    THEN [ss EXCEPT ![cur].completed_at = t, ![cur].status = "completed"]
    ELSE ss

\* A completion that empties the whole queue.
complete_session_queue_ClearsAll(q, cur) ==
    IF cur # NoSession THEN [q EXCEPT !.rows = {}] ELSE q

\* Cache::complete_session, the queue
complete_session_queue(q, cur) ==
    IF cur # NoSession THEN [q EXCEPT !.rows = {r \in @ : r.session_id # cur}]
    ELSE q

\* An interrupt that leaves the row as it is.
interrupt_session_LeavesActive(ss, cur) == ss

\* Cache::interrupt_session
interrupt_session(ss, cur) ==
    IF cur # NoSession /\ cur \in DOMAIN ss
    THEN [ss EXCEPT ![cur].status = "interrupted"]
    ELSE ss

\* The batch the driver hands to mark_completed_batch.
BatchFor(dry, states) == IF dry THEN DryRunStates(states) ELSE states

RECURSIVE EnqueueDrained(_, _)
\* The driver's loop over the drained discovery buffer.
EnqueueDrained(q, drained) ==
    IF drained = << >> THEN q
    ELSE EnqueueDrained(
             IF Head(drained).subdirs # << >>
             THEN enqueue_work_batch(q, Head(drained).session_id,
                                     Head(drained).subdirs, 0)
             ELSE q,
             Tail(drained))

\* What a run leaves in the history when find_ds_stores_progressive ends.
Summary(outcome, matches, st) ==
    [run |-> runs, opts |-> opts, outcome |-> outcome, matches |-> matches,
     stats |-> st, sid |-> session_id, info |-> run_info, ended |-> now]

(***************************************************************************)
(* The main loop of find_ds_stores_progressive.                            *)
(***************************************************************************)
StatusOf(p) ==
    get_directory_status(opts.force, fresh_complete_dirs, directory_cache, now, p)

\* task.abort(): a probe that still awaits is stopped; one past its last
\* await runs on.
Aborted(ts) ==
    [i \in DOMAIN ts |->
        IF ts[i].st = "running" THEN [ts[i] EXCEPT !.st = "aborted"] ELSE ts[i]]

\* The loop-top check finds the token tripped: every task is aborted and the
\* cancellation path is entered.
ObserveCancel ==
    /\ pc = "check"
    /\ tasks' = Aborted(tasks)
    /\ run_info' = [run_info EXCEPT !.root_done_at_cancel = (opts.root \in probed)]
    /\ pc' = "cancel_flush"
    /\ UNCHANGED <<dbvars, opts, fresh_complete_dirs, current_session, session_id,
                   stats, found_files, completed_dirs, processing_dirs,
                   subdirs_queue, items_to_process, cached_undeleted, returned,
                   files, now, runs, ticks, faults, probed, hist>>

\* The token is tripped just before a loop-top check, which observes it.
CancelObserved ==
    /\ ~cancelled
    /\ interrupts + faults < MaxIncidents
    /\ runs <= IncidentRuns
    /\ interrupts' = interrupts + 1
    /\ cancelled' = TRUE
    /\ ObserveCancel

\* The loop-top check finds the token clear: the driver goes on to peek.
TokenClear ==
    /\ pc = "check"
    /\ ~cancelled
    /\ pc' = "peek"
    /\ UNCHANGED <<dbvars, opts, fresh_complete_dirs, current_session, session_id,
                   stats, found_files, completed_dirs, processing_dirs,
                   subdirs_queue, tasks, items_to_process, cancelled,
                   cached_undeleted, returned, envvars, ghostvars>>

\* A classification that counts a directory without a row as resumed.
increment_for_NotCachedAsResumed(st, status) ==
    IF status = "Fresh" THEN [st EXCEPT !.skipped_cached = @ + 1]
    ELSE IF status \in {"Incomplete", "NotCached"}
         THEN [st EXCEPT !.resumed_searches = @ + 1]
    ELSE [st EXCEPT !.new_searches = @ + 1]

\* The counter a peeked item increments: match dir_status.
increment_for(st, status) ==
    IF status = "Fresh" THEN [st EXCEPT !.skipped_cached = @ + 1]
    ELSE IF status = "Incomplete" THEN [st EXCEPT !.resumed_searches = @ + 1]
    ELSE [st EXCEPT !.new_searches = @ + 1]

RECURSIVE ClassifyAll(_, _)
\* The loop over the peeked items.
ClassifyAll(st, statuses) ==
    IF statuses = << >> THEN st
    ELSE ClassifyAll(increment_for(st, Head(statuses)), Tail(statuses))

\* SearchStats::get_total_searched
get_total_searched(st) == st.new_searches + st.resumed_searches

\* The peek is empty and no task is held: the loop is left.
LoopBreak ==
    /\ pc = "peek"
    /\ peek_work_batch(work_queue.rows, session_id, WORK_BATCH_SIZE) = << >>
    /\ tasks = << >>
    /\ pc' = "final"
    /\ run_info' = [run_info EXCEPT !.exit_with_buffer = (subdirs_queue # << >>)]
    /\ UNCHANGED <<dbvars, opts, fresh_complete_dirs, current_session, session_id,
                   stats, found_files, completed_dirs, processing_dirs,
                   subdirs_queue, tasks, items_to_process, cancelled,
                   cached_undeleted, returned, envvars, probed, hist>>

\* Peek, classify every peeked item, remove all of them from the queue.
Dequeue ==
    /\ pc = "peek"
    /\ LET items == peek_work_batch(work_queue.rows, session_id, WORK_BATCH_SIZE)
           accepted == SelectSeq(items, LAMBDA w : StatusOf(w.path) # "Fresh")
       IN  /\ ~(items = << >> /\ tasks = << >>)
           /\ stats' = ClassifyAll(stats, [i \in DOMAIN items |-> StatusOf(items[i].path)])
           /\ items_to_process' = [i \in DOMAIN accepted |-> accepted[i].path]
           /\ work_queue' = [work_queue EXCEPT
                  !.rows = remove_work_items(@, {items[i].id : i \in DOMAIN items})]
    /\ pc' = "spawn"
    /\ UNCHANGED <<directory_cache, search_sessions, found_files_tbl, session_seq,
                   opts, fresh_complete_dirs, current_session, session_id,
                   found_files, completed_dirs, processing_dirs, subdirs_queue,
                   tasks, cancelled, cached_undeleted, returned, envvars, ghostvars>>

NewTask(p) == [path |-> p, st |-> "running", ds_store_found |-> FALSE,
               search_completed |-> TRUE, error_message |-> NULL,
               subdirs_to_queue |-> << >>]

\* The record of a probe being spawned for a path in this run.
Spawned(p) == run_info' = [run_info EXCEPT !.spawned = @ \cup {p}]

\* An in-flight insert that calls mark_searching in a dry run too.
MarkItem_EvenInDryRun(p) ==
    /\ processing_dirs' = processing_dirs \cup {p}
    /\ directory_cache' = mark_searching_rows(directory_cache, p, now)
    /\ fresh_complete_dirs' = fresh_complete_dirs \ {p}

\* The in-flight insert and mark_searching (unless dry-run) of an item.
MarkItem(p) ==
    /\ processing_dirs' = processing_dirs \cup {p}
    /\ directory_cache' = IF opts.dry_run THEN directory_cache
                          ELSE mark_searching_rows(directory_cache, p, now)
    /\ fresh_complete_dirs' = IF opts.dry_run THEN fresh_complete_dirs
                              ELSE fresh_complete_dirs \ {p}

\* An item that is already in flight in this run is passed over; otherwise
\* it is marked and its probe spawned, the task cap not being reached.
SpawnTask ==
    /\ pc = "spawn"
    /\ items_to_process # << >>
    /\ IF Head(items_to_process) \in processing_dirs
       THEN UNCHANGED <<directory_cache, fresh_complete_dirs, processing_dirs, tasks,
                        run_info>>
       ELSE /\ Len(tasks) < TASK_BATCH_SIZE
            /\ MarkItem(Head(items_to_process))
            /\ tasks' = Append(tasks, NewTask(Head(items_to_process)))
            /\ Spawned(Head(items_to_process))
    /\ items_to_process' = Tail(items_to_process)
    /\ UNCHANGED <<work_queue, search_sessions, found_files_tbl, session_seq, pc,
                   opts, current_session, session_id, stats, found_files,
                   completed_dirs, subdirs_queue, cancelled, cached_undeleted,
                   returned, envvars, probed, hist>>

\* An item is marked with the task cap reached: the driver goes to wait.
SpawnBlocked ==
    /\ pc = "spawn"
    /\ items_to_process # << >>
    /\ Head(items_to_process) \notin processing_dirs
    /\ Len(tasks) >= TASK_BATCH_SIZE
    /\ MarkItem(Head(items_to_process))
    /\ pc' = "spawn_wait"
    /\ UNCHANGED <<work_queue, search_sessions, found_files_tbl, session_seq, opts,
                   current_session, session_id, stats, found_files, completed_dirs,
                   subdirs_queue, tasks, items_to_process, cancelled,
                   cached_undeleted, returned, envvars, ghostvars>>

\* select_all: one task that has ended is taken out of the task list.
AwaitOne ==
    /\ pc = "spawn_wait"
    /\ Len(tasks) >= TASK_BATCH_SIZE
    /\ \E i \in DOMAIN tasks :
         /\ tasks[i].st = "finished"
         /\ tasks' = RemoveAt(tasks, i)
    /\ UNCHANGED <<dbvars, pc, opts, fresh_complete_dirs, current_session,
                   session_id, stats, found_files, completed_dirs, processing_dirs,
                   subdirs_queue, items_to_process, cancelled, cached_undeleted,
                   returned, envvars, ghostvars>>

\* A spawn that does not wait for the task list to fall below the cap.
SpawnAfterWait_WithoutWaiting ==
    /\ pc = "spawn_wait"
    /\ tasks' = Append(tasks, NewTask(Head(items_to_process)))
    /\ Spawned(Head(items_to_process))
    /\ items_to_process' = Tail(items_to_process)
    /\ pc' = "spawn"
    /\ UNCHANGED <<dbvars, opts, fresh_complete_dirs, current_session, session_id,
                   stats, found_files, completed_dirs, processing_dirs,
                   subdirs_queue, cancelled, cached_undeleted, returned, envvars,
                   probed, hist>>

\* The wait is over: the probe of the marked item is spawned.
SpawnAfterWait ==
    /\ pc = "spawn_wait"
    /\ Len(tasks) < TASK_BATCH_SIZE
    /\ tasks' = Append(tasks, NewTask(Head(items_to_process)))
    /\ Spawned(Head(items_to_process))
    /\ items_to_process' = Tail(items_to_process)
    /\ pc' = "spawn"
    /\ UNCHANGED <<dbvars, opts, fresh_complete_dirs, current_session, session_id,
                   stats, found_files, completed_dirs, processing_dirs,
                   subdirs_queue, cancelled, cached_undeleted, returned, envvars,
                   probed, hist>>

\* Every accepted item has been handled.
SpawnDone ==
    /\ pc = "spawn"
    /\ items_to_process = << >>
    /\ pc' = "flush"
    /\ UNCHANGED <<dbvars, opts, fresh_complete_dirs, current_session, session_id,
                   stats, found_files, completed_dirs, processing_dirs,
                   subdirs_queue, tasks, items_to_process, cancelled,
                   cached_undeleted, returned, envvars, ghostvars>>

\* FLUSH_INTERVAL has elapsed: the completion buffer is drained into
\* mark_completed_batch and the match buffer is saved.
FlushCache ==
    /\ pc = "flush"
    /\ LET batch == BatchFor(opts.dry_run, completed_dirs)
       IN  /\ directory_cache' = mark_completed_batch_rows(directory_cache, batch)
           /\ fresh_complete_dirs' = mark_completed_batch_hot(fresh_complete_dirs, batch)
    /\ completed_dirs' = << >>
    /\ found_files_tbl' = save_found_files(found_files_tbl, session_id, found_files)
    /\ pc' = "drain"
    /\ UNCHANGED <<work_queue, search_sessions, session_seq, opts, current_session,
                   session_id, stats, found_files, processing_dirs, subdirs_queue,
                   tasks, items_to_process, cancelled, cached_undeleted, returned,
                   envvars, ghostvars>>

\* FLUSH_INTERVAL has not elapsed.
SkipFlush ==
    /\ pc = "flush"
    /\ pc' = "drain"
    /\ UNCHANGED <<dbvars, opts, fresh_complete_dirs, current_session, session_id,
                   stats, found_files, completed_dirs, processing_dirs,
                   subdirs_queue, tasks, items_to_process, cancelled,
                   cached_undeleted, returned, envvars, ghostvars>>

\* The discovery buffer is drained and its subdirectories are enqueued.
DrainSubdirs ==
    /\ pc = "drain"
    /\ work_queue' = EnqueueDrained(work_queue, subdirs_queue)
    /\ subdirs_queue' = << >>
    /\ pc' = "reap"
    /\ UNCHANGED <<directory_cache, search_sessions, found_files_tbl, session_seq,
                   opts, fresh_complete_dirs, current_session, session_id, stats,
                   found_files, completed_dirs, processing_dirs, tasks,
                   items_to_process, cancelled, cached_undeleted, returned,
                   envvars, ghostvars>>

\* tasks.retain(|task| !task.is_finished())
ReapTasks ==
    /\ pc = "reap"
    /\ tasks' = SelectSeq(tasks, LAMBDA k : k.st # "finished")
    /\ pc' = "check"
    /\ UNCHANGED <<dbvars, opts, fresh_complete_dirs, current_session, session_id,
                   stats, found_files, completed_dirs, processing_dirs,
                   subdirs_queue, items_to_process, cancelled, cached_undeleted,
                   returned, envvars, ghostvars>>

\* After the loop: join_all (no task is left), the final batch update and the
\* final enqueue of discovered subdirectories.
FinalFlush ==
    /\ pc = "final"
    /\ \A i \in DOMAIN tasks : tasks[i].st = "finished"
    /\ LET batch == BatchFor(opts.dry_run, completed_dirs)
       IN  /\ directory_cache' = mark_completed_batch_rows(directory_cache, batch)
           /\ fresh_complete_dirs' = mark_completed_batch_hot(fresh_complete_dirs, batch)
    /\ completed_dirs' = << >>
    /\ work_queue' = EnqueueDrained(work_queue, subdirs_queue)
    /\ subdirs_queue' = << >>
    /\ pc' = "complete"
    /\ UNCHANGED <<search_sessions, found_files_tbl, session_seq, opts,
                   current_session, session_id, stats, found_files,
                   processing_dirs, tasks, items_to_process, cancelled,
                   cached_undeleted, returned, envvars, ghostvars>>

\* cache.complete_session() and the return of the matches and the stats.
CompleteRun ==
    /\ pc = "complete"
    /\ search_sessions' = complete_session_rows(search_sessions, current_session, now)
    /\ work_queue' = complete_session_queue(work_queue, current_session)
    /\ current_session' = NoSession
    /\ returned' = found_files
    /\ hist' = Append(hist, Summary("completed", found_files, stats))
    /\ tasks' = << >>
    /\ pc' = "delete"
    /\ UNCHANGED <<directory_cache, found_files_tbl, session_seq, opts,
                   fresh_complete_dirs, session_id, stats, found_files,
                   completed_dirs, processing_dirs, subdirs_queue,
                   items_to_process, cancelled, cached_undeleted, envvars, probed,
                   run_info>>

(***************************************************************************)
(* The cancellation path.                                                  *)
(***************************************************************************)
\* The buffered completions (a clone of the buffer) are written.
CancelFlush ==
    /\ pc = "cancel_flush"
    /\ LET batch == BatchFor(opts.dry_run, completed_dirs)
       IN  /\ directory_cache' = mark_completed_batch_rows(directory_cache, batch)
           /\ fresh_complete_dirs' = mark_completed_batch_hot(fresh_complete_dirs, batch)
    /\ pc' = "cancel_save"
    /\ UNCHANGED <<work_queue, search_sessions, found_files_tbl, session_seq, opts,
                   current_session, session_id, stats, found_files, completed_dirs,
                   processing_dirs, subdirs_queue, tasks, items_to_process,
                   cancelled, cached_undeleted, returned, envvars, ghostvars>>

\* The match buffer is saved to the session's log.
CancelSave ==
    /\ pc = "cancel_save"
    /\ found_files_tbl' = save_found_files(found_files_tbl, session_id, found_files)
    /\ pc' = "cancel_decide"
    /\ UNCHANGED <<directory_cache, work_queue, search_sessions, session_seq, opts,
                   fresh_complete_dirs, current_session, session_id, stats,
                   found_files, completed_dirs, processing_dirs, subdirs_queue,
                   tasks, items_to_process, cancelled, cached_undeleted, returned,
                   envvars, ghostvars>>

\* The queue count decides: completed if it is zero, interrupted otherwise.
\* The matches and stats collected so far are returned.
CancelDecide ==
    /\ pc = "cancel_decide"
    /\ LET remaining_work == get_work_count(work_queue.rows, session_id)
       IN  IF remaining_work = 0
           THEN /\ search_sessions' =
                       complete_session_rows(search_sessions, current_session, now)
                /\ work_queue' = complete_session_queue(work_queue, current_session)
                /\ current_session' = NoSession
           ELSE /\ search_sessions' = interrupt_session(search_sessions, current_session)
                /\ UNCHANGED <<work_queue, current_session>>
    /\ returned' = found_files
    /\ hist' = Append(hist, Summary("cancelled", found_files, stats))
    /\ tasks' = << >>
    /\ pc' = "delete"
    /\ UNCHANGED <<directory_cache, found_files_tbl, session_seq, opts,
                   fresh_complete_dirs, session_id, stats, found_files,
                   completed_dirs, processing_dirs, subdirs_queue,
                   items_to_process, cancelled, cached_undeleted, envvars, probed,
                   run_info>>

(***************************************************************************)
(* The rest of bye_bye_ds_stores and the exit of the process.              *)
(***************************************************************************)
RECURSIVE DeletedStates(_, _)
\* dir_states_to_mark: one state per parent of a deleted or missing file.
DeletedStates(dirs, t) ==
    IF dirs = {} THEN << >>
    ELSE LET d == CHOOSE x \in dirs : TRUE
         IN  <<DirState(d, t, TRUE, TRUE, TRUE, NULL)>> \o DeletedStates(dirs \ {d}, t)

\* The hits are the returned matches and the cached undeleted files.  A dry
\* run returns here; otherwise every hit is removed (or found missing) and
\* its parent marked, and old entries are swept if there was a hit.  The
\* signal task of main then marks the session interrupted if one is current.
DeleteStep ==
    /\ pc = "delete"
    /\ LET hits == Range(returned) \cup cached_undeleted
           parents == {ParentOf(h) : h \in hits}
           marked == mark_completed_batch_rows(directory_cache,
                                               DeletedStates(parents, now))
       IN  IF opts.dry_run
           THEN UNCHANGED <<files, directory_cache>>
           ELSE /\ files' = files \ parents
                /\ directory_cache' =
                       IF hits # {} THEN cleanup_old_entries(marked, now) ELSE marked
    /\ search_sessions' = IF cancelled
                          THEN interrupt_session(search_sessions, current_session)
                          ELSE search_sessions
    /\ MemoryGone
    /\ UNCHANGED <<work_queue, found_files_tbl, session_seq, now, runs, ticks,
                   interrupts, faults, hist>>

(***************************************************************************)
(* The directory probe, process_directory_with_persistent_queue, and the   *)
(* task that wraps it in a timeout.                                        *)
(***************************************************************************)
ProbeFrame ==
    UNCHANGED <<dbvars, files, now, runs, ticks, interrupts, pc, opts,
                fresh_complete_dirs, current_session, session_id,
                items_to_process, cancelled, cached_undeleted, returned, hist>>

Probing == pc \notin {"idle", "startup", "delete"}

\* Pre-flight checks that let a link pass.
PreflightError_SymlinkPasses(p) ==
    IF is_system_path(p) THEN "Skipped system/problematic directory"
    ELSE IF PathKind(p) = "file" THEN "Not a directory"
    ELSE IF PathKind(p) = "missing" THEN "Cannot access directory"
    ELSE NULL

\* The error text of a failing pre-flight check, NULL if all pass.
PreflightError(p) ==
    IF is_system_path(p) THEN "Skipped system/problematic directory"
    ELSE IF PathKind(p) = "file" THEN "Not a directory"
    ELSE IF PathKind(p) = "missing" THEN "Cannot access directory"
    ELSE IF PathKind(p) = "symlink" THEN "Skipped symlink"
    ELSE NULL

\* A probe that collects subdirectories whatever the recursive flag says.
SubdirsOf_IgnoringRecursive(p, recursive) ==
    SelectSeq(DirEntries(p), LAMBDA e : EntryType(e) = "dir" /\ ~is_system_path(e))

\* A probe that takes file_type from metadata, which follows links, and
\* does not ask symlink_metadata.
SubdirsOf_FollowingLinks(p, recursive) ==
    IF recursive
    THEN SelectSeq(DirEntries(p),
                   LAMBDA e : EntryType(e) \in {"dir", "symlink"} /\ ~is_system_path(e))
    ELSE << >>

\* The entries the probe keeps as subdirectories.
SubdirsOf(p, recursive) ==
    IF recursive
    THEN SelectSeq(DirEntries(p),
                   LAMBDA e : EntryType(e) = "dir" /\ ~is_system_path(e))
    ELSE << >>

\* The pre-flight checks and the directory listing: a failing check buffers
\* its completion row and returns, and the task leaves the in-flight set and
\* ends; otherwise the entries are read, a sentinel file is pushed to the
\* match buffer and counted.
ProbeRead(i) ==
    /\ Probing
    /\ tasks[i].st = "running"
    /\ LET p == tasks[i].path
           err == PreflightError(p)
       IN  IF err # NULL
           THEN /\ completed_dirs' =
                       Append(completed_dirs, DirState(p, now, TRUE, FALSE, FALSE, err))
                /\ stats' = [stats EXCEPT
                       !.errors = @ + IF PathKind(p) = "missing" THEN 1 ELSE 0]
                /\ tasks' = [tasks EXCEPT ![i].st = "finished", ![i].error_message = err]
                /\ processing_dirs' = processing_dirs \ {p}
                /\ probed' = probed \cup {p}
                /\ UNCHANGED found_files
           ELSE /\ found_files' = IF p \in files THEN Append(found_files, DsStore(p))
                                  ELSE found_files
                /\ stats' = [stats EXCEPT !.found = @ + IF p \in files THEN 1 ELSE 0]
                /\ tasks' = [tasks EXCEPT
                       ![i].st = "read",
                       ![i].ds_store_found = (p \in files),
                       ![i].subdirs_to_queue = SubdirsOf(p, opts.recursive)]
                /\ UNCHANGED <<completed_dirs, processing_dirs, probed>>
    /\ UNCHANGED <<subdirs_queue, faults, run_info>>
    /\ ProbeFrame

\* read_dir fails when the directory is opened: an error is counted and the
\* directory is to be recorded as not completed.
ProbeReadDirError(i) ==
    /\ Probing
    /\ tasks[i].st = "running"
    /\ PreflightError(tasks[i].path) = NULL
    /\ interrupts + faults < MaxIncidents
    /\ runs <= IncidentRuns
    /\ faults' = faults + 1
    /\ run_info' = [run_info EXCEPT !.faulty = TRUE]
    /\ stats' = [stats EXCEPT !.errors = @ + 1]
    /\ tasks' = [tasks EXCEPT ![i].st = "read",
                              ![i].error_message = "Failed to read directory",
                              ![i].search_completed = FALSE]
    /\ UNCHANGED <<found_files, completed_dirs, processing_dirs, subdirs_queue, probed>>
    /\ ProbeFrame

\* The probe is cut short while it awaits: by the 30 s timeout (an error is
\* counted) or by next_entry failing (the ? returns the error).  A sentinel
\* file may have been pushed already.  Nothing else is posted; the task
\* leaves the in-flight set and ends.
ProbeCutShort(i, timeout, pushed) ==
    /\ Probing
    /\ tasks[i].st = "running"
    /\ PreflightError(tasks[i].path) = NULL
    /\ pushed => tasks[i].path \in files
    /\ interrupts + faults < MaxIncidents
    /\ runs <= IncidentRuns
    /\ faults' = faults + 1
    /\ run_info' = [run_info EXCEPT !.faulty = TRUE]
    /\ found_files' = IF pushed THEN Append(found_files, DsStore(tasks[i].path))
                      ELSE found_files
    /\ stats' = [stats EXCEPT !.found = @ + (IF pushed THEN 1 ELSE 0),
                              !.errors = @ + (IF timeout THEN 1 ELSE 0)]
    /\ processing_dirs' = processing_dirs \ {tasks[i].path}
    /\ tasks' = [tasks EXCEPT ![i].st = "finished"]
    /\ UNCHANGED <<completed_dirs, subdirs_queue, probed>>
    /\ ProbeFrame

\* The subdirectory list is posted to the discovery buffer.
ProbePost(i) ==
    /\ Probing
    /\ tasks[i].st = "read"
    /\ subdirs_queue' =
          IF tasks[i].subdirs_to_queue # << >>
          THEN Append(subdirs_queue, [session_id |-> session_id,
                                      subdirs |-> tasks[i].subdirs_to_queue])
          ELSE subdirs_queue
    /\ tasks' = [tasks EXCEPT ![i].st = "posted"]
    /\ UNCHANGED <<stats, found_files, completed_dirs, processing_dirs, faults,
                   probed, run_info>>
    /\ ProbeFrame

\* The completion row is appended to the completion buffer and the probe
\* returns; the task removes its path from the in-flight set and ends.
ProbeComplete(i) ==
    /\ Probing
    /\ tasks[i].st = "posted"
    /\ completed_dirs' =
          Append(completed_dirs,
                 DirState(tasks[i].path, now, tasks[i].search_completed,
                          tasks[i].ds_store_found, FALSE, tasks[i].error_message))
    /\ processing_dirs' = processing_dirs \ {tasks[i].path}
    /\ tasks' = [tasks EXCEPT ![i].st = "finished"]
    /\ probed' = probed \cup {tasks[i].path}
    /\ UNCHANGED <<stats, found_files, subdirs_queue, faults, run_info>>
    /\ ProbeFrame

(***************************************************************************)
(* The environment.                                                        *)
(***************************************************************************)
\* The process is killed during the search: its memory is gone, the
\* database stays as it is.
Crash ==
    /\ pc \notin {"idle", "delete"}
    /\ interrupts + faults < MaxIncidents
    /\ runs <= IncidentRuns
    /\ interrupts' = interrupts + 1
    /\ hist' = Append(hist, Summary("crashed", << >>, ZeroStats))
    /\ MemoryGone
    /\ UNCHANGED <<dbvars, files, now, runs, ticks, faults>>

\* Time passes between two runs.
Tick ==
    /\ pc = "idle"
    /\ runs > 0
    /\ ticks < MaxTicks
    /\ ticks' = ticks + 1
    /\ now' = now + TickStep
    /\ UNCHANGED <<dbvars, memvars, files, runs, interrupts, faults, ghostvars>>

Driver ==
    \/ \E o \in CommandLines : StartProcess(o.recursive, o.dry_run, o.force)
    \/ StartupResume \/ StartupNew
    \/ CancelObserved \/ TokenClear \/ LoopBreak \/ Dequeue
    \/ SpawnTask \/ SpawnBlocked \/ AwaitOne \/ SpawnAfterWait \/ SpawnDone
    \/ FlushCache \/ SkipFlush \/ DrainSubdirs \/ ReapTasks
    \/ FinalFlush \/ CompleteRun
    \/ CancelFlush \/ CancelSave \/ CancelDecide
    \/ DeleteStep

Next ==
    \/ Driver
    \/ \E i \in DOMAIN tasks : ProbeRead(i)
    \/ \E i \in DOMAIN tasks : ProbeReadDirError(i)
    \/ \E i \in DOMAIN tasks, timeout \in BOOLEAN, pushed \in BOOLEAN :
          ProbeCutShort(i, timeout, pushed)
    \/ \E i \in DOMAIN tasks : ProbePost(i)
    \/ \E i \in DOMAIN tasks : ProbeComplete(i)
    \/ Crash
    \/ Tick


Spec == Init /\ [][Next]_vars

(***************************************************************************)
(* One run of the binary from an empty database, with the Ctrl-C handler   *)
(* of main tripping the token at any moment of the main loop, under the    *)
(* scheduling the runtime gives: the driver and every spawned probe keep   *)
(* being run.                                                              *)
(***************************************************************************)
\* The positions of the driver inside the main loop.
LoopPcs == {"check", "peek", "spawn", "spawn_wait", "flush", "drain", "reap"}
\* The positions of the driver on the cancellation path.
CancelPcs == {"cancel_flush", "cancel_save", "cancel_decide"}

\* The first process is started, without --force.
StartOnce ==
    \E o \in CommandLines :
        /\ runs = 0
        /\ ~o.force
        /\ StartProcess(o.recursive, o.dry_run, o.force)

\* The signal task of main: cancel_clone.cancel().
TokenTripped ==
    /\ pc \in LoopPcs
    /\ ~cancelled
    /\ interrupts + faults < MaxIncidents
    /\ runs <= IncidentRuns
    /\ interrupts' = interrupts + 1
    /\ cancelled' = TRUE
    /\ UNCHANGED <<dbvars, pc, opts, fresh_complete_dirs, current_session,
                   session_id, stats, found_files, completed_dirs, processing_dirs,
                   subdirs_queue, tasks, items_to_process, cached_undeleted,
                   returned, files, now, runs, ticks, faults, ghostvars>>

\* A loop-top check observes the token that was tripped before it.
CancelSeen ==
    /\ cancelled
    /\ ObserveCancel
    /\ UNCHANGED <<cancelled, interrupts>>

DriverLive ==
    \/ StartOnce
    \/ StartupNew
    \/ CancelSeen \/ TokenClear \/ LoopBreak \/ Dequeue
    \/ SpawnTask \/ SpawnBlocked \/ AwaitOne \/ SpawnAfterWait \/ SpawnDone
    \/ FlushCache \/ SkipFlush \/ DrainSubdirs \/ ReapTasks
    \/ FinalFlush \/ CompleteRun
    \/ CancelFlush \/ CancelSave \/ CancelDecide
    \/ DeleteStep

NextLive ==
    \/ DriverLive
    \/ TokenTripped
    \/ \E i \in DOMAIN tasks : ProbeRead(i)
    \/ \E i \in DOMAIN tasks : ProbeReadDirError(i)
    \/ \E i \in DOMAIN tasks, timeout \in BOOLEAN, pushed \in BOOLEAN :
          ProbeCutShort(i, timeout, pushed)
    \/ \E i \in DOMAIN tasks : ProbePost(i)
    \/ \E i \in DOMAIN tasks : ProbeComplete(i)

\* The driver is run whenever it can take a step, and so is every probe: a
\* directory listing ends (or its 30 s timeout fires), and a probe past its
\* listing runs to its end.
FairRun ==
    /\ WF_vars(DriverLive)
    /\ WF_vars(\E i \in DOMAIN tasks : ProbeRead(i))
    /\ WF_vars(\E i \in DOMAIN tasks : ProbePost(i))
    /\ WF_vars(\E i \in DOMAIN tasks : ProbeComplete(i))

SpecLive == Init /\ [][NextLive]_vars /\ FairRun

(***************************************************************************)
(* One run of the binary in which a database call of the main loop can     *)
(* fail.  Every such call is followed by `?`: the error leaves             *)
(* find_ds_stores_progressive, bye_bye_ds_stores and main at once, and the *)
(* process ends without another call on the cache.                         *)
(***************************************************************************)
\* The positions of the driver at which the loop calls the database:
\* peek_work_batch, get_directory_status and remove_work_items; mark_searching;
\* mark_completed_batch and save_found_files; enqueue_work_batch.
DbCallPcs == {"peek", "spawn", "flush", "drain"}

\* A database call of the main loop returns Err.
DbCallFails ==
    /\ pc \in DbCallPcs
    /\ interrupts + faults < MaxIncidents
    /\ runs <= IncidentRuns
    /\ faults' = faults + 1
    /\ hist' = Append(hist, Summary("error", << >>, stats))
    /\ MemoryGone
    /\ UNCHANGED <<dbvars, files, now, runs, ticks, interrupts>>

NextErrors ==
    \/ DriverLive
    \/ TokenTripped
    \/ DbCallFails
    \/ \E i \in DOMAIN tasks : ProbeRead(i)
    \/ \E i \in DOMAIN tasks : ProbeReadDirError(i)
    \/ \E i \in DOMAIN tasks, timeout \in BOOLEAN, pushed \in BOOLEAN :
          ProbeCutShort(i, timeout, pushed)
    \/ \E i \in DOMAIN tasks : ProbePost(i)
    \/ \E i \in DOMAIN tasks : ProbeComplete(i)

SpecErrors == Init /\ [][NextErrors]_vars

(***************************************************************************)
(* The probe on its own: tasks are spawned for paths of every kind the     *)
(* pre-flight checks tell apart (a directory, a link, a file, a path that  *)
(* cannot be accessed, a system path), recursive or not, and run to their  *)
(* end, with the failures a directory read can meet.                       *)
(***************************************************************************)
\* Number of probes that are spawned.
MaxProbeTasks == 2

\* The paths probes are spawned for.
ProbePaths == {"/t", "/t/a", "/t/b", "/t/x", "/t/f", "/t/gone", "/t/.Trash"}

\* A driver inside its main loop, with an empty cache and nothing buffered.
InitProbe ==
    /\ files = InitialFiles
    /\ now = 0
    /\ directory_cache = << >>
    /\ work_queue = [rows |-> {}, seq |-> 0]
    /\ search_sessions = << >>
    /\ found_files_tbl = << >>
    /\ session_seq = 1
    /\ pc = "probe"
    /\ \E recursive \in BOOLEAN :
          opts = [force |-> FALSE, root |-> Root, recursive |-> recursive,
                  dry_run |-> FALSE]
    /\ fresh_complete_dirs = {}
    /\ current_session = 1
    /\ session_id = 1
    /\ stats = ZeroStats
    /\ found_files = << >>
    /\ completed_dirs = << >>
    /\ processing_dirs = {}
    /\ subdirs_queue = << >>
    /\ tasks = << >>
    /\ items_to_process = << >>
    /\ cancelled = FALSE
    /\ cached_undeleted = {}
    /\ returned = << >>
    /\ runs = 0 /\ ticks = 0 /\ interrupts = 0 /\ faults = 0
    /\ probed = {}
    /\ run_info = NoRunInfo
    /\ hist = << >>

\* The in-flight insert and tokio::spawn of the driver, for any path.
SpawnProbe(p) ==
    /\ pc = "probe"
    /\ Len(tasks) < MaxProbeTasks
    /\ p \notin processing_dirs
    /\ processing_dirs' = processing_dirs \cup {p}
    /\ tasks' = Append(tasks, NewTask(p))
    /\ Spawned(p)
    /\ UNCHANGED <<stats, found_files, completed_dirs, subdirs_queue, faults,
                   probed>>
    /\ ProbeFrame

NextProbe ==
    \/ \E p \in ProbePaths : SpawnProbe(p)
    \/ \E i \in DOMAIN tasks : ProbeRead(i)
    \/ \E i \in DOMAIN tasks : ProbeReadDirError(i)
    \/ \E i \in DOMAIN tasks, timeout \in BOOLEAN, pushed \in BOOLEAN :
          ProbeCutShort(i, timeout, pushed)
    \/ \E i \in DOMAIN tasks : ProbePost(i)
    \/ \E i \in DOMAIN tasks : ProbeComplete(i)

SpecProbe == InitProbe /\ [][NextProbe]_vars

(***************************************************************************)
(* The directory cache on its own: the public operations of Cache applied  *)
(* in any order, with any arguments, by a caller holding a constructed     *)
(* cache.  Only the directory_cache table, the hot set and the clock       *)
(* change.                                                                 *)
(***************************************************************************)
\* Number of clock advances while a cache is held.
MaxCacheTicks == 2
CachePaths == {"/t", "/t/a"}

\* The DirectoryState values a caller stamps at the current time.
CallerStates(t) ==
    {DirState(p, t, c, f, d, NULL) :
        p \in CachePaths, c \in BOOLEAN, f \in BOOLEAN, d \in BOOLEAN}

\* The batches handed to mark_completed_batch: one state, or one state for
\* each of two paths.
CallerBatches(t) ==
    {<<s>> : s \in CallerStates(t)}
    \cup {<<s1, s2>> : s1 \in {s \in CallerStates(t) : s.path = "/t"},
                       s2 \in {s \in CallerStates(t) : s.path = "/t/a"}}

CacheFrame ==
    UNCHANGED <<work_queue, search_sessions, found_files_tbl, session_seq, pc,
                current_session, session_id, stats, found_files, completed_dirs,
                processing_dirs, subdirs_queue, tasks, items_to_process, cancelled,
                cached_undeleted, returned, files, runs, interrupts, faults,
                ghostvars>>

\* Cache::new on a database without rows.
InitCache ==
    /\ files = InitialFiles
    /\ now = 0
    /\ directory_cache = << >>
    /\ work_queue = [rows |-> {}, seq |-> 0]
    /\ search_sessions = << >>
    /\ found_files_tbl = << >>
    /\ session_seq = 0
    /\ pc = "cache"
    /\ opts = NoOpts
    /\ fresh_complete_dirs = {}
    /\ current_session = NoSession
    /\ session_id = NoSession
    /\ stats = ZeroStats
    /\ found_files = << >>
    /\ completed_dirs = << >>
    /\ processing_dirs = {}
    /\ subdirs_queue = << >>
    /\ tasks = << >>
    /\ items_to_process = << >>
    /\ cancelled = FALSE
    /\ cached_undeleted = {}
    /\ returned = << >>
    /\ runs = 0 /\ ticks = 0 /\ interrupts = 0 /\ faults = 0
    /\ probed = {}
    /\ run_info = NoRunInfo
    /\ hist = << >>

\* Cache::new on the database as it is: unless force is set, the load of the
\* hot set; then the integrity repair.
CacheNew(force) ==
    /\ fresh_complete_dirs' =
          IF force THEN {} ELSE load_fresh_complete_dirs(directory_cache, now)
    /\ directory_cache' = validate_integrity(directory_cache)
    /\ opts' = [opts EXCEPT !.force = force]
    /\ UNCHANGED <<now, ticks>>
    /\ CacheFrame

MarkSearching(p) ==
    /\ directory_cache' = mark_searching_rows(directory_cache, p, now)
    /\ fresh_complete_dirs' = fresh_complete_dirs \ {p}
    /\ UNCHANGED <<now, ticks, opts>>
    /\ CacheFrame

MarkCompleted(p, ds_store_found, ds_store_deleted) ==
    /\ directory_cache' =
          mark_completed_rows(directory_cache, p, now, ds_store_found, ds_store_deleted)
    /\ fresh_complete_dirs' = mark_completed_hot(fresh_complete_dirs, p)
    /\ UNCHANGED <<now, ticks, opts>>
    /\ CacheFrame

MarkError(p) ==
    /\ directory_cache' = mark_error_rows(directory_cache, p, now, "error")
    /\ UNCHANGED <<fresh_complete_dirs, now, ticks, opts>>
    /\ CacheFrame

MarkCompletedBatch(states) ==
    /\ directory_cache' = mark_completed_batch_rows(directory_cache, states)
    /\ fresh_complete_dirs' = mark_completed_batch_hot(fresh_complete_dirs, states)
    /\ UNCHANGED <<now, ticks, opts>>
    /\ CacheFrame

ClearIncomplete ==
    /\ directory_cache' = clear_incomplete(directory_cache)
    /\ UNCHANGED <<fresh_complete_dirs, now, ticks, opts>>
    /\ CacheFrame

CleanupOldEntries ==
    /\ directory_cache' = cleanup_old_entries(directory_cache, now)
    /\ UNCHANGED <<fresh_complete_dirs, now, ticks, opts>>
    /\ CacheFrame

\* Time passes while the cache is held.
TimePasses ==
    /\ ticks < MaxCacheTicks
    /\ ticks' = ticks + 1
    /\ now' = now + TickStep
    /\ UNCHANGED <<directory_cache, fresh_complete_dirs, opts>>
    /\ CacheFrame

NextCache ==
    \/ \E force \in BOOLEAN : CacheNew(force)
    \/ \E p \in CachePaths : MarkSearching(p)
    \/ \E p \in CachePaths, f \in BOOLEAN, d \in BOOLEAN : MarkCompleted(p, f, d)
    \/ \E p \in CachePaths : MarkError(p)
    \/ \E states \in CallerBatches(now) : MarkCompletedBatch(states)
    \/ ClearIncomplete
    \/ CleanupOldEntries
    \/ TimePasses

SpecCache == InitCache /\ [][NextCache]_vars

(***************************************************************************)
(* The session registry and the work queue on their own: the public        *)
(* session and queue operations of Cache applied in any order by one       *)
(* caller holding a constructed cache.  hist holds a record of the last    *)
(* call.                                                                   *)
(***************************************************************************)
\* Number of sessions start_session creates.
MaxSessions == 2
\* Number of ids the work queue gives out.
MaxQueueIds == 3
\* Number of clock advances while the registry is used.
MaxSessionTicks == 1

\* The (root, recursive, dry) triples sessions are started and resumed with.
Triples ==
    {[root |-> Root, recursive |-> TRUE, dry_run |-> TRUE],
     [root |-> Root, recursive |-> TRUE, dry_run |-> FALSE]}

\* The paths and the batches of paths that are enqueued.
QueuePaths == {"/t", "/t/a"}
QueueBatches == {<<"/t/a">>, <<"/t", "/t/a">>, <<"/t/a", "/t/a">>}
\* The priorities rows are enqueued with.
QueuePriorities == {0, 1}
\* The lists of matches that are logged.
FoundBatches == {<<DsStore("/t/a")>>}
\* The sessions a caller can name: those start_session has returned.
KnownSessions == 1..session_seq

SessionFrame ==
    UNCHANGED <<directory_cache, pc, opts, fresh_complete_dirs, session_id, stats,
                found_files, completed_dirs, processing_dirs, subdirs_queue,
                tasks, items_to_process, cancelled, cached_undeleted, returned,
                files, runs, interrupts, faults, probed, run_info>>

\* The record of the last call: its name, whether it was handed a path that
\* was already queued for the session, the session it returned and the rows
\* it returned.
CallRecord(name, dup, ret, items) ==
    hist' = <<[call |-> name, dup |-> dup, ret |-> ret, items |-> items]>>
Called(name, dup) == CallRecord(name, dup, NoSession, << >>)
Returned(name, ret) == CallRecord(name, FALSE, ret, << >>)

Queued(q, sid, p) == \E r \in q.rows : r.path = p /\ r.session_id = sid

\* Cache::new on a database without rows; no session is current.
InitSessions ==
    /\ files = InitialFiles
    /\ now = 0
    /\ directory_cache = << >>
    /\ work_queue = [rows |-> {}, seq |-> 0]
    /\ search_sessions = << >>
    /\ found_files_tbl = << >>
    /\ session_seq = 0
    /\ pc = "sessions"
    /\ opts = NoOpts
    /\ fresh_complete_dirs = {}
    /\ current_session = NoSession
    /\ session_id = NoSession
    /\ stats = ZeroStats
    /\ found_files = << >>
    /\ completed_dirs = << >>
    /\ processing_dirs = {}
    /\ subdirs_queue = << >>
    /\ tasks = << >>
    /\ items_to_process = << >>
    /\ cancelled = FALSE
    /\ cached_undeleted = {}
    /\ returned = << >>
    /\ runs = 0 /\ ticks = 0 /\ interrupts = 0 /\ faults = 0
    /\ probed = {}
    /\ run_info = NoRunInfo
    /\ hist = << >>

\* Cache::start_session
StartSession(tr) ==
    /\ session_seq < MaxSessions
    /\ work_queue.seq < MaxQueueIds
    /\ LET sid == session_seq + 1
           db  == start_session([ss |-> search_sessions, q |-> work_queue,
                                 ff |-> found_files_tbl],
                                sid, tr.root, tr.recursive, tr.dry_run, now)
       IN  /\ search_sessions' = db.ss
           /\ work_queue' = db.q
           /\ found_files_tbl' = db.ff
           /\ session_seq' = sid
           /\ current_session' = sid
    /\ Returned("start_session", session_seq + 1)
    /\ UNCHANGED <<now, ticks>>
    /\ SessionFrame

\* Cache::resume_session: the latest interrupted session of the triple is made
\* active and current if it has queue rows or found files, and is cleaned up
\* otherwise; without such a session nothing changes.
ResumeSession(tr) ==
    /\ LET cands == ResumeCandidates(search_sessions, tr.root, tr.recursive, tr.dry_run)
       IN  IF cands = {}
           THEN /\ UNCHANGED <<search_sessions, work_queue, found_files_tbl,
                               current_session>>
                /\ Returned("resume_session", NoSession)
           ELSE \E pick \in cands :
                  IF Resumable(work_queue.rows, found_files_tbl, pick)
                  THEN /\ search_sessions' = [search_sessions EXCEPT ![pick].status = "active"]
                       /\ current_session' = pick
                       /\ UNCHANGED <<work_queue, found_files_tbl>>
                       /\ Returned("resume_session", pick)
                  ELSE /\ search_sessions' = cleanup_session_rows(search_sessions, pick)
                       /\ work_queue' = [work_queue EXCEPT
                                            !.rows = cleanup_session_queue(@, pick)]
                       /\ found_files_tbl' = cleanup_session_found(found_files_tbl, pick)
                       /\ UNCHANGED current_session
                       /\ Returned("resume_session", NoSession)
    /\ UNCHANGED <<session_seq, now, ticks>>
    /\ SessionFrame

\* Cache::interrupt_session
InterruptSession ==
    /\ search_sessions' = interrupt_session(search_sessions, current_session)
    /\ Called("interrupt_session", FALSE)
    /\ UNCHANGED <<work_queue, found_files_tbl, session_seq, current_session, now, ticks>>
    /\ SessionFrame

\* Cache::complete_session
CompleteSession ==
    /\ search_sessions' = complete_session_rows(search_sessions, current_session, now)
    /\ work_queue' = complete_session_queue(work_queue, current_session)
    /\ current_session' = NoSession
    /\ Called("complete_session", FALSE)
    /\ UNCHANGED <<found_files_tbl, session_seq, now, ticks>>
    /\ SessionFrame

\* Cache::enqueue_work
EnqueueWork(sid, p) ==
    /\ sid \in KnownSessions
    /\ work_queue.seq < MaxQueueIds
    /\ \E priority \in QueuePriorities :
          work_queue' = enqueue_work(work_queue, sid, p, priority)
    /\ Called("enqueue_work", Queued(work_queue, sid, p))
    /\ UNCHANGED <<search_sessions, found_files_tbl, session_seq, current_session,
                   now, ticks>>
    /\ SessionFrame

\* Cache::enqueue_work_batch
EnqueueWorkBatch(sid, paths) ==
    /\ sid \in KnownSessions
    /\ work_queue.seq + Len(paths) <= MaxQueueIds
    /\ \E priority \in QueuePriorities :
          work_queue' = enqueue_work_batch(work_queue, sid, paths, priority)
    /\ Called("enqueue_work_batch",
              \E i \in DOMAIN paths :
                  \/ Queued(work_queue, sid, paths[i])
                  \/ \E j \in DOMAIN paths : j < i /\ paths[j] = paths[i])
    /\ UNCHANGED <<search_sessions, found_files_tbl, session_seq, current_session,
                   now, ticks>>
    /\ SessionFrame

\* Cache::peek_work_batch
PeekWork(sid, n) ==
    /\ sid \in KnownSessions
    /\ CallRecord("peek_work_batch", FALSE, NoSession,
                  peek_work_batch(work_queue.rows, sid, n))
    /\ UNCHANGED <<search_sessions, work_queue, found_files_tbl, session_seq,
                   current_session, now, ticks>>
    /\ SessionFrame

\* Cache::save_found_files for a session that has a row (found_files has a
\* foreign key on the session).
SaveFoundFiles(sid, found) ==
    /\ sid \in DOMAIN search_sessions
    /\ found_files_tbl' = save_found_files(found_files_tbl, sid, found)
    /\ Called("save_found_files", FALSE)
    /\ UNCHANGED <<search_sessions, work_queue, session_seq, current_session,
                   now, ticks>>
    /\ SessionFrame

\* Cache::peek_work_batch and Cache::remove_work_items on what it returned.
TakeWork(sid) ==
    /\ LET items == peek_work_batch(work_queue.rows, sid, WORK_BATCH_SIZE)
       IN  /\ items # << >>
           /\ work_queue' = [work_queue EXCEPT
                  !.rows = remove_work_items(@, {items[i].id : i \in DOMAIN items})]
    /\ Called("remove_work_items", FALSE)
    /\ UNCHANGED <<search_sessions, found_files_tbl, session_seq, current_session,
                   now, ticks>>
    /\ SessionFrame

\* Time passes while the registry is used.
SessionTimePasses ==
    /\ ticks < MaxSessionTicks
    /\ ticks' = ticks + 1
    /\ now' = now + TickStep
    /\ UNCHANGED <<search_sessions, work_queue, found_files_tbl, session_seq,
                   current_session, hist>>
    /\ SessionFrame

NextSessions ==
    \/ \E tr \in Triples : StartSession(tr)
    \/ \E tr \in Triples : ResumeSession(tr)
    \/ InterruptSession
    \/ CompleteSession
    \/ \E sid \in 1..MaxSessions, p \in QueuePaths : EnqueueWork(sid, p)
    \/ \E sid \in 1..MaxSessions, paths \in QueueBatches : EnqueueWorkBatch(sid, paths)
    \/ \E sid \in 1..MaxSessions : TakeWork(sid)
    \/ \E sid \in 1..MaxSessions, n \in 0..WORK_BATCH_SIZE : PeekWork(sid, n)
    \/ \E sid \in 1..MaxSessions, found \in FoundBatches : SaveFoundFiles(sid, found)
    \/ SessionTimePasses

SpecSessions == InitSessions /\ [][NextSessions]_vars

(***************************************************************************)
(* Properties.                                                             *)
(***************************************************************************)
\* The sentinel files of the tree.
AllSentinels == {DsStore(p) : p \in InitialFiles}

\* new + resumed + skipped_cached of a SearchStats value.
Searched(st) == st.new_searches + st.resumed_searches + st.skipped_cached

\* The status of a session row, "none" if the row is gone.
SessionStatus(sid) ==
    IF sid \in DOMAIN search_sessions THEN search_sessions[sid].status ELSE "none"

\* Two runs have ended, the first with outcome first and the second
\* completed, both recursive with the same command line, the first on an
\* empty cache, the second within the freshness window and leaving its loop
\* with an empty discovery buffer.
TwoRuns(first) ==
    /\ pc = "idle"
    /\ Len(hist) = 2
    /\ hist[1].outcome = first
    /\ hist[2].outcome = "completed"
    /\ hist[2].opts = hist[1].opts
    /\ hist[1].opts.recursive
    /\ hist[1].info.empty_start
    /\ ~hist[2].info.exit_with_buffer
    /\ ticks = 0

\* C1: a recursive dry run from an empty cache is cancelled and the same
\* command line is run again within the window: the second run ends with its
\* session completed and returns every sentinel file of the tree.
C1_ResumedRunCompletesWithAllMatches ==
    (TwoRuns("cancelled") /\ hist[1].opts.dry_run)
        => /\ SessionStatus(hist[2].sid) = "completed"
           /\ Range(hist[2].matches) = AllSentinels

\* C2: a recursive dry run from an empty cache is killed and the same command
\* line is run again within the window: when the second run has ended, every
\* directory of the tree has a completed row and every sentinel file is in
\* the returned match set.
C2_RerunAfterCrashScansEverything ==
    (TwoRuns("crashed") /\ hist[1].opts.dry_run)
        => /\ \A d \in ReachableDirs :
                 d \in DOMAIN directory_cache /\ directory_cache[d].search_completed
           /\ Range(hist[2].matches) = AllSentinels

\* C3: in a recursive run from an empty cache that is not cancelled and has
\* no probe fault, when complete_session is about to be called every
\* reachable directory has been probed and no discovered subdirectory waits
\* in the discovery buffer or in the work queue.
C3_LoopExitsWithNoWorkLeft ==
    (pc = "complete" /\ opts.recursive /\ run_info.empty_start /\ ~run_info.faulty)
        => /\ ReachableDirs \subseteq probed
           /\ subdirs_queue = << >>
           /\ get_work_count(work_queue.rows, session_id) = 0

\* C4: a recursive scan from an empty cache is cancelled when only the root
\* has been dequeued and the root's probe has completed: at the end of the
\* cancellation path the session's queue is not empty and the session is
\* interrupted.
C4_CancelAfterRootProbeLeavesWork ==
    (/\ pc = "delete" /\ cancelled
     /\ opts.recursive /\ run_info.empty_start
     /\ run_info.root_done_at_cancel /\ stats.new_searches = 1)
        => /\ get_work_count(work_queue.rows, session_id) > 0
           /\ SessionStatus(session_id) = "interrupted"

\* C5: a recursive dry run from an empty cache completes after searching
\* every directory, and the same command line is run again within the
\* window: the second run has new = 0, resumed = 0, skipped_cached = the
\* number of directories, and returns the match set of the first.
C5_SecondRunSkipsEverything ==
    (/\ TwoRuns("completed") /\ hist[1].opts.dry_run
     /\ hist[1].stats.new_searches = Cardinality(ReachableDirs))
        => /\ hist[2].stats.new_searches = 0
           /\ hist[2].stats.resumed_searches = 0
           /\ hist[2].stats.skipped_cached = Cardinality(ReachableDirs)
           /\ Range(hist[2].matches) = Range(hist[1].matches)

\* C6: a recursive run from an empty cache is cancelled and the same command
\* line is run again within the window: new + resumed + skipped_cached summed
\* over the two runs is the number of directories, which is new +
\* skipped_cached of one uninterrupted run.
C6_CountersAddUpAcrossResume ==
    TwoRuns("cancelled")
        => Searched(hist[1].stats) + Searched(hist[2].stats)
               = Cardinality(ReachableDirs)

\* C7: a recursive dry run from an empty cache that is neither cancelled nor
\* hit by a probe fault returns exactly the sentinel files, with new = the
\* number of directories, resumed = 0, skipped = 0, found = the number of
\* sentinel files, a completed row for every directory and no row with
\* ds_store_deleted.
C7_UninterruptedDryRun ==
    (/\ pc = "delete" /\ ~cancelled
     /\ opts.recursive /\ opts.dry_run
     /\ run_info.empty_start /\ ~run_info.faulty)
        => /\ Range(returned) = AllSentinels
           /\ stats.new_searches = Cardinality(ReachableDirs)
           /\ stats.resumed_searches = 0
           /\ stats.skipped_cached = 0
           /\ stats.found = Cardinality(AllSentinels)
           /\ \A d \in ReachableDirs :
                 d \in DOMAIN directory_cache /\ directory_cache[d].search_completed
           /\ \A d \in DOMAIN directory_cache : ~directory_cache[d].ds_store_deleted

\* C8: with recursive = false nothing but the root is in the session's queue,
\* in a task, probed or matched, and the discovery buffer stays empty; a
\* completed non-recursive run from an empty cache has new = 1, skipped = 0,
\* found = 0 and returns no match (the root of the tree holds no sentinel).
C8_NonRecursiveStaysInRoot ==
    /\ (pc \notin {"idle", "cache"} /\ ~opts.recursive)
          => /\ subdirs_queue = << >>
             /\ \A r \in work_queue.rows :
                   r.session_id = session_id => r.path = opts.root
             /\ \A i \in DOMAIN tasks : tasks[i].path = opts.root
             /\ probed \subseteq {opts.root}
             /\ Range(found_files) \subseteq {DsStore(opts.root)}
    /\ \A k \in DOMAIN hist :
          (/\ hist[k].outcome = "completed" /\ ~hist[k].opts.recursive
           /\ hist[k].info.empty_start)
             => /\ hist[k].stats.new_searches = 1
                /\ hist[k].stats.skipped_cached = 0
                /\ hist[k].stats.found = 0
                /\ hist[k].matches = << >>

\* C8, its case: a non-recursive run from an empty cache has probed the root,
\* which has subdirectories, and completed.
C8_Witness ==
    /\ pc = "delete" /\ ~cancelled /\ ~opts.recursive /\ run_info.empty_start
    /\ probed = {opts.root}
    /\ \E e \in Range(DirEntries(opts.root)) : EntryType(e) = "dir"
    /\ stats.new_searches = 1

\* C9: every row of directory_cache has ds_store_deleted only with
\* ds_store_found, after construction and after every cache operation.
C9_DeletedImpliesFound ==
    \A p \in DOMAIN directory_cache :
        directory_cache[p].ds_store_deleted => directory_cache[p].ds_store_found

\* C10: the hot set holds only paths whose row is completed and has
\* last_searched_at > now - window, after every cache operation and as time
\* passes.
C10_HotSetFresh ==
    \A p \in fresh_complete_dirs :
        /\ p \in DOMAIN directory_cache
        /\ directory_cache[p].search_completed
        /\ directory_cache[p].last_searched_at > Cutoff(now)

\* The interrupted sessions of a triple.
InterruptedOf(tr) ==
    {s \in DOMAIN search_sessions :
        /\ search_sessions[s].status = "interrupted"
        /\ search_sessions[s].root_path = tr.root
        /\ search_sessions[s].is_recursive = tr.recursive
        /\ search_sessions[s].is_dry_run = tr.dry_run}

\* C11: when resume_session has returned, each (root, recursive, dry) triple
\* has at most one session row with status interrupted.
C11_OneInterruptedPerTriple ==
    (hist # << >> /\ hist[1].call = "resume_session")
        => \A tr \in Triples : Cardinality(InterruptedOf(tr)) <= 1

\* No two rows of the work queue have the same path and session.
QueueUnique ==
    \A r1, r2 \in work_queue.rows :
        (r1.path = r2.path /\ r1.session_id = r2.session_id) => r1 = r2

\* C12: after every call the work queue has no two rows with the same path
\* and session, and an enqueue_work of a path that is already queued for the
\* session (the root that start_session has enqueued included) changes
\* nothing.
C12_EnqueueIsIdempotent ==
    [][/\ QueueUnique'
       /\ \A sid \in 1..MaxSessions, p \in QueuePaths :
             (EnqueueWork(sid, p) /\ Queued(work_queue, sid, p))
                 => work_queue' = work_queue]_vars

\* C12, its case: enqueue_work was called for the root that start_session
\* had enqueued for the current session, and the session has one row.
C12_Witness ==
    /\ hist # << >> /\ hist[1].call = "enqueue_work" /\ hist[1].dup
    /\ current_session # NoSession
    /\ {r.path : r \in {q \in work_queue.rows : q.session_id = current_session}} = {Root}
    /\ get_work_count(work_queue.rows, current_session) = 1

\* The clock readings of a second call made after one made at time t.
LaterClocks(t) == {t, t + 1}

\* C13 as stated: in every cache state, mark_completed(p, f, d) called a
\* second time with the same arguments leaves the row of p and the hot set as
\* the first call left them, and so does mark_completed_batch called a second
\* time with the same states.
C13_RepeatChangesNothing ==
    /\ \A p \in CachePaths, f \in BOOLEAN, d \in BOOLEAN, t2 \in LaterClocks(now) :
          LET once  == mark_completed_rows(directory_cache, p, now, f, d)
              twice == mark_completed_rows(once, p, t2, f, d)
              hot1  == mark_completed_hot(fresh_complete_dirs, p)
          IN  twice = once /\ mark_completed_hot(hot1, p) = hot1
    /\ \A states \in CallerBatches(now) :
          LET once == mark_completed_batch_rows(directory_cache, states)
              hot1 == mark_completed_batch_hot(fresh_complete_dirs, states)
          IN  /\ mark_completed_batch_rows(once, states) = once
              /\ mark_completed_batch_hot(hot1, states) = hot1

\* C13, amended: a second mark_completed(p, f, d) with the same arguments
\* changes nothing but last_searched_at of the row of p, which becomes the
\* clock reading of the second call (so nothing at all within one second),
\* and leaves the hot set as it is; a second mark_completed_batch with the
\* same states changes nothing.
C13_RepeatChangesOnlyTimestamp ==
    /\ \A p \in CachePaths, f \in BOOLEAN, d \in BOOLEAN, t2 \in LaterClocks(now) :
          LET once  == mark_completed_rows(directory_cache, p, now, f, d)
              twice == mark_completed_rows(once, p, t2, f, d)
              hot1  == mark_completed_hot(fresh_complete_dirs, p)
          IN  /\ twice = [once EXCEPT ![p].last_searched_at = t2]
              /\ mark_completed_hot(hot1, p) = hot1
    /\ \A states \in CallerBatches(now) :
          LET once == mark_completed_batch_rows(directory_cache, states)
              hot1 == mark_completed_batch_hot(fresh_complete_dirs, states)
          IN  /\ mark_completed_batch_rows(once, states) = once
              /\ mark_completed_batch_hot(hot1, states) = hot1

\* C13, its case: mark_completed has written the row of a path and put it in
\* the hot set, with ds_store_found set, and the clock has moved on since, so
\* that a second call reads a later time.
C13_Witness ==
    /\ pc = "cache"
    /\ \E p \in fresh_complete_dirs :
          /\ p \in DOMAIN directory_cache
          /\ directory_cache[p].search_completed
          /\ directory_cache[p].ds_store_found
          /\ directory_cache[p].last_searched_at < now

\* What the row of a path says its status is.
RowStatus(dc, t, p) ==
    IF p \notin DOMAIN dc THEN "NotCached"
    ELSE IF ~dc[p].search_completed THEN "Incomplete"
    ELSE IF dc[p].last_searched_at > Cutoff(t) THEN "Fresh"
    ELSE "Stale"

\* C14: without force refresh, the status of every path is NotCached iff it
\* has no row, Incomplete iff its row is not completed, Fresh iff its row is
\* completed with last_searched_at > now - window, and Stale iff its row is
\* completed with last_searched_at <= now - window.
C14_StatusFollowsRow ==
    (pc = "cache" /\ ~opts.force)
        => \A p \in CachePaths :
              get_directory_status(opts.force, fresh_complete_dirs,
                                   directory_cache, now, p)
                  = RowStatus(directory_cache, now, p)

\* C15: in a run with force every path classifies as NotCached, whatever the
\* rows and the hot set hold, and a dequeue counts every item it peeked as
\* new, skips none and hands every one over to be probed.
C15_ForceClassifiesNotCached ==
    [][(opts.force /\ pc \notin {"idle", "cache", "sessions"})
          => /\ \A p \in Paths : StatusOf(p) = "NotCached"
             /\ Dequeue =>
                   LET items == peek_work_batch(work_queue.rows, session_id,
                                                WORK_BATCH_SIZE)
                   IN  /\ stats'.new_searches = stats.new_searches + Len(items)
                       /\ stats'.skipped_cached = stats.skipped_cached
                       /\ stats'.resumed_searches = stats.resumed_searches
                       /\ items_to_process' = [i \in DOMAIN items |-> items[i].path]]_vars

\* C15, its case: a run with force has completed the root, which is in the
\* hot set again, and has then dequeued and counted as new a directory whose
\* row from the run before is completed and fresh.
C15_Witness ==
    /\ opts.force /\ pc = "spawn"
    /\ stats.new_searches >= 2 /\ stats.skipped_cached = 0
    /\ opts.root \in fresh_complete_dirs
    /\ \E p \in Range(items_to_process) :
          p # opts.root /\ RowStatus(directory_cache, now, p) = "Fresh"

\* C16: should_skip answers true only for a path whose status is Fresh, in
\* every cache state, force refresh included.
C16_SkipOnlyFresh ==
    pc = "cache"
        => \A p \in CachePaths :
              should_skip(fresh_complete_dirs, p)
                  => get_directory_status(opts.force, fresh_complete_dirs,
                                          directory_cache, now, p) = "Fresh"

\* The paths that are queued, buffered for queueing, accepted or in a task.
PathsInWork ==
    {r.path : r \in work_queue.rows}
    \cup UNION {Range(subdirs_queue[i].subdirs) : i \in DOMAIN subdirs_queue}
    \cup Range(items_to_process)
    \cup {tasks[i].path : i \in DOMAIN tasks}

\* C17: in a tree with a symbolic link to an ancestor no symbolic link is
\* ever in the discovery buffer, in the work queue or in a task, and a
\* recursive run that is not cancelled comes to its end with the session
\* completed.
C17_SymlinkNeverQueuedAndRunEnds ==
    /\ [](\A p \in PathsInWork : PathKind(p) # "symlink")
    /\ (pc = "startup" /\ opts.recursive)
          ~> (cancelled \/ (pc = "delete" /\ SessionStatus(session_id) = "completed"))

\* C17, its case: a recursive run that was not cancelled has read the root,
\* which holds the link /t/x to /t, has probed every directory and has
\* ended.
C17_Witness ==
    /\ pc = "delete" /\ ~cancelled /\ opts.recursive
    /\ \E e \in Range(DirEntries(opts.root)) : EntryType(e) = "symlink"
    /\ probed = ReachableDirs
    /\ SessionStatus(session_id) = "completed"

\* C18: when a recursive run over /t, which holds the link /t/x to /t, has
\* ended without being cancelled, the directory cache has a row for /t/x
\* that is completed and has the error message "Skipped symlink".
C18_SymlinkRowRecorded ==
    (/\ pc = "delete" /\ ~cancelled /\ opts.recursive
     /\ run_info.empty_start /\ ~run_info.faulty /\ ~run_info.exit_with_buffer)
        => /\ "/t/x" \in DOMAIN directory_cache
           /\ directory_cache["/t/x"].search_completed
           /\ directory_cache["/t/x"].error_message = "Skipped symlink"

\* The row mark_completed_batch leaves for the last state of a path in a
\* batch.
RowOfState(st) ==
    NewRow(st.last_searched_at, st.search_completed, st.ds_store_found,
           st.ds_store_deleted, st.error_message)

\* C19: on the cancellation path the buffered completion rows are written,
\* then the match buffer is saved, and the session row is not changed by
\* either; then the session becomes completed if the session's queue has no
\* row and interrupted if it has one.
C19_CancelPathOrder ==
    [][/\ (pc' = "cancel_save" /\ pc # "cancel_save") => CancelFlush
       /\ (pc' = "cancel_decide" /\ pc # "cancel_decide") => CancelSave
       /\ CancelFlush =>
             /\ UNCHANGED search_sessions
             /\ LET batch == BatchFor(opts.dry_run, completed_dirs)
                 IN  \A i \in DOMAIN batch :
                        (\A j \in DOMAIN batch : j > i => batch[j].path # batch[i].path)
                            => /\ batch[i].path \in DOMAIN directory_cache'
                               /\ directory_cache'[batch[i].path] = RowOfState(batch[i])
       /\ CancelSave =>
             /\ UNCHANGED search_sessions
             /\ Range(found_files)
                   \subseteq Range(load_found_files(found_files_tbl', session_id))
       /\ pc \in CancelPcs => SessionStatus(session_id) = "active"
       /\ CancelDecide =>
             search_sessions'[session_id].status =
                 IF Cardinality({r \in work_queue.rows : r.session_id = session_id}) = 0
                 THEN "completed" ELSE "interrupted"]_vars

\* C19, its case: the cancellation path has ended on a session with rows in
\* its queue, after it wrote a buffered completion row and saved a match.
C19_Witness ==
    /\ pc = "delete" /\ cancelled
    /\ Cardinality({r \in work_queue.rows : r.session_id = session_id}) > 0
    /\ SessionStatus(session_id) = "interrupted"
    /\ found_files # << >>
    /\ Range(found_files) \subseteq Range(load_found_files(found_files_tbl, session_id))
    /\ \E i \in DOMAIN completed_dirs :
          completed_dirs[i].path \in DOMAIN directory_cache

\* The last run that ended was cancelled.
EndedCancelled == hist # << >> /\ hist[Len(hist)].outcome = "cancelled"

\* C20 as stated: once the token is tripped while the main loop runs, the
\* cancellation path is run to its end and the driver returns with the
\* session not active, and no probe is spawned once a check has observed
\* the token.
C20_TripLeadsToCancelPath ==
    /\ [][(pc \in CancelPcs) => Len(tasks') <= Len(tasks)]_vars
    /\ (cancelled /\ pc \in LoopPcs)
          ~> (/\ pc = "delete" /\ EndedCancelled
              /\ SessionStatus(session_id) \in {"completed", "interrupted"})

\* C20, amended: once the token is tripped while the main loop runs, the
\* driver returns with the session not active; a loop-top check that is made
\* with the token tripped enters the cancellation path, which is run to its
\* end without a probe being spawned; a trip that comes after the last
\* loop-top check lets the run end as a completed one.
C20_TripLeadsToReturn ==
    /\ [][/\ (pc \in CancelPcs) => Len(tasks') <= Len(tasks)
          /\ (pc = "check" /\ cancelled /\ pc' # pc) => pc' = "cancel_flush"]_vars
    /\ (cancelled /\ pc \in LoopPcs)
          ~> (/\ pc = "delete"
              /\ SessionStatus(session_id) \in {"completed", "interrupted"})
    /\ (pc = "cancel_flush")
          ~> (/\ pc = "delete" /\ EndedCancelled
              /\ SessionStatus(session_id) \in {"completed", "interrupted"})

\* C20, its case: the token was tripped while a probe was running and a
\* later loop-top check observed it; the cancellation path has ended and left
\* the session interrupted.
C20_Witness ==
    /\ pc = "delete" /\ cancelled /\ EndedCancelled
    /\ stats.new_searches >= 1
    /\ SessionStatus(session_id) = "interrupted"

\* The queue rows and the logged matches of a session.
QueueRowsOf(q, sid) == {r \in q.rows : r.session_id = sid}
FoundRowsOf(ff, sid) == {ff[i] : i \in {j \in DOMAIN ff : ff[j].session_id = sid}}

\* What resume_session(tr) has to leave, given what it returned.
ResumePost(tr, ret) ==
    LET cands  == InterruptedOf(tr)
        latest == {s \in cands : \A o \in cands :
                      search_sessions[o].started_at <= search_sessions[s].started_at}
    IN  IF cands = {}
        THEN /\ ret = NoSession
             /\ UNCHANGED <<search_sessions, work_queue, found_files_tbl>>
        ELSE \E pick \in latest :
               IF \/ QueueRowsOf(work_queue, pick) # {}
                  \/ FoundRowsOf(found_files_tbl, pick) # {}
               THEN /\ ret = pick
                    /\ DOMAIN search_sessions' = DOMAIN search_sessions
                    /\ search_sessions'[pick].status = "active"
                    /\ \A s \in DOMAIN search_sessions \ {pick} :
                          search_sessions'[s] = search_sessions[s]
                    /\ UNCHANGED <<work_queue, found_files_tbl>>
               ELSE /\ ret = NoSession
                    /\ DOMAIN search_sessions' = DOMAIN search_sessions \ {pick}
                    /\ \A s \in DOMAIN search_sessions' :
                          search_sessions'[s] = search_sessions[s]
                    /\ work_queue'.rows = work_queue.rows \ QueueRowsOf(work_queue, pick)
                    /\ FoundRowsOf(found_files_tbl', pick) = {}
                    /\ \A s \in 1..MaxSessions \ {pick} :
                          FoundRowsOf(found_files_tbl', s) = FoundRowsOf(found_files_tbl, s)

C22_CompleteAndInterruptFrame ==
    [][/\ CompleteSession
            => /\ DOMAIN search_sessions' = DOMAIN search_sessions
               /\ \A s \in DOMAIN search_sessions :
                     IF s = current_session
                     THEN search_sessions'[s] =
                              [search_sessions[s] EXCEPT !.completed_at = now,
                                                         !.status = "completed"]
                     ELSE search_sessions'[s] = search_sessions[s]
               /\ work_queue'.rows =
                     work_queue.rows \ QueueRowsOf(work_queue, current_session)
               /\ UNCHANGED <<found_files_tbl, directory_cache>>
       /\ InterruptSession
            => /\ DOMAIN search_sessions' = DOMAIN search_sessions
               /\ \A s \in DOMAIN search_sessions :
                     IF s = current_session
                     THEN search_sessions'[s] =
                              [search_sessions[s] EXCEPT !.status = "interrupted"]
                     ELSE search_sessions'[s] = search_sessions[s]
               /\ UNCHANGED <<work_queue, found_files_tbl, directory_cache>>]_vars

\* C22, its case: complete_session has completed a session and removed its
\* queue rows while another session keeps a queue row.
C22_Witness ==
    /\ hist # << >> /\ hist[1].call = "complete_session"
    /\ \E s, o \in DOMAIN search_sessions :
          /\ s # o
          /\ search_sessions[s].status = "completed"
          /\ search_sessions[s].completed_at = now
          /\ QueueRowsOf(work_queue, s) = {}
          /\ QueueRowsOf(work_queue, o) # {}

\* What peek_work_batch(sid, n) has to return.
PeekPost(sid, n, items) ==
    LET mine == QueueRowsOf(work_queue, sid)
        got  == Range(items)
    IN  /\ Len(items) <= n
        /\ Len(items) = Cardinality(got)
        /\ got \subseteq mine
        /\ \A i, j \in DOMAIN items :
              i < j => \/ items[i].priority > items[j].priority
                       \/ /\ items[i].priority = items[j].priority
                          /\ items[i].id < items[j].id
        /\ \A r \in mine \ got :
              /\ Len(items) = n
              /\ \A g \in got : \/ g.priority > r.priority
                                \/ g.priority = r.priority /\ g.id < r.id

\* C26: peek_work_batch(session, n) returns at most n rows, all of that
\* session, ordered by priority descending and then id ascending, and they
\* are the first n rows of the session in that order; it removes no row.
C26_PeekReturnsFirstRows ==
    [][\A sid \in 1..MaxSessions, n \in 0..WORK_BATCH_SIZE :
          PeekWork(sid, n)
              => /\ PeekPost(sid, n, hist'[1].items)
                 /\ work_queue' = work_queue]_vars

\* C26, its case: a peek for one row returned the later, higher-priority row
\* of a session that has two rows, while another session has a row as well.
C26_Witness ==
    /\ hist # << >> /\ hist[1].call = "peek_work_batch"
    /\ Len(hist[1].items) = 1
    /\ LET got  == hist[1].items[1]
           mine == QueueRowsOf(work_queue, got.session_id)
       IN  /\ Cardinality(mine) = 2
           /\ \A r \in mine \ {got} : r.priority < got.priority /\ r.id < got.id
           /\ \E r \in work_queue.rows : r.session_id # got.session_id

\* C27: when start_session(root, recursive, dry) has returned, no session
\* that is not completed and was started before the cutoff remains, nor a
\* queue row or a logged match of one; the returned id has a new row, active
\* and of the given triple; its queue holds one row, the root at priority 0;
\* completed sessions are kept as they were.
C27_StartSessionPost ==
    [][\A tr \in Triples :
          StartSession(tr)
              => LET sid == hist'[1].ret
                     old == {s \in DOMAIN search_sessions :
                               /\ search_sessions[s].status # "completed"
                               /\ search_sessions[s].started_at
                                     < now - WindowHours * SecondsPerHour}
                 IN  /\ \A s \in old :
                           /\ s \notin DOMAIN search_sessions'
                           /\ QueueRowsOf(work_queue', s) = {}
                           /\ FoundRowsOf(found_files_tbl', s) = {}
                     /\ sid \notin DOMAIN search_sessions
                     /\ sid \in DOMAIN search_sessions'
                     /\ search_sessions'[sid] =
                           [root_path |-> tr.root, started_at |-> now,
                            completed_at |-> NoTime, is_recursive |-> tr.recursive,
                            is_dry_run |-> tr.dry_run, status |-> "active"]
                     /\ {[path |-> r.path, priority |-> r.priority] :
                            r \in QueueRowsOf(work_queue', sid)}
                           = {[path |-> tr.root, priority |-> 0]}
                     /\ Cardinality(QueueRowsOf(work_queue', sid)) = 1
                     /\ \A s \in DOMAIN search_sessions :
                           search_sessions[s].status = "completed"
                               => /\ s \in DOMAIN search_sessions'
                                  /\ search_sessions'[s] = search_sessions[s]]_vars

\* C27, its case: start_session has returned after the clock passed the
\* window of an earlier session that was still active, and that session is
\* gone.
C27_Witness ==
    /\ hist # << >> /\ hist[1].call = "start_session" /\ hist[1].ret = 2
    /\ DOMAIN search_sessions = {2}
    /\ search_sessions[2].started_at > WindowHours * SecondsPerHour
    /\ \A r \in work_queue.rows : r.session_id = 2

\* C23: when a database call of the main loop has failed and the driver has
\* returned the error, the session's row has the status failed.
C23_ErrorFailsSession ==
    \A k \in DOMAIN hist :
        hist[k].outcome = "error" => SessionStatus(hist[k].sid) = "failed"

\* C24: when the 30 s timeout cuts a probe short, one error is counted, no
\* completion is buffered or written for the directory, and the directory's
\* durable row is an incomplete one (search_completed = FALSE), in a dry run
\* as well as in a deleting run.
C24_TimeoutLeavesIncompleteRow ==
    [][\A i \in DOMAIN tasks, pushed \in BOOLEAN :
          ProbeCutShort(i, TRUE, pushed)
              => /\ stats'.errors = stats.errors + 1
                 /\ completed_dirs' = completed_dirs
                 /\ directory_cache' = directory_cache
                 /\ RowStatus(directory_cache', now', tasks[i].path) = "Incomplete"]_vars

\* A list without a path that occurs twice.
NoDuplicates(list) == \A i, j \in DOMAIN list : list[i] = list[j] => i = j

\* C25: the match list find_ds_stores_progressive returns has no path twice,
\* in every run, a resumed run that loads the logged matches and goes on
\* probing included.
C25_ReturnedMatchesDistinct ==
    /\ NoDuplicates(returned)
    /\ \A k \in DOMAIN hist : NoDuplicates(hist[k].matches)

\* C25, its case: a resumed run has loaded the matches of the cancelled run
\* before it, has probed further directories and returned more matches.
C25_Witness ==
    /\ Len(hist) = 2
    /\ hist[1].outcome = "cancelled" /\ hist[1].matches # << >>
    /\ hist[2].outcome = "completed" /\ hist[2].info.resumed
    /\ hist[2].sid = hist[1].sid
    /\ hist[2].stats.new_searches > 0
    /\ Len(hist[2].matches) > Len(hist[1].matches)
    /\ Range(hist[1].matches) \subseteq Range(hist[2].matches)

\* The directories with a completion that is buffered in completed_dirs or
\* durable: a row that is completed or carries the error of a probe.
WithCompletion ==
    {completed_dirs[k].path : k \in DOMAIN completed_dirs}
        \cup {p \in DOMAIN directory_cache :
                \/ directory_cache[p].search_completed
                \/ directory_cache[p].error_message # NULL}

\* C28: in a run on an empty cache in which no probe fails or times out,
\* whenever the session's queue count is 0 at the cancellation decision or
\* at the exit of the loop, every directory that was dequeued and accepted
\* has a completion buffered or durable: the accepted directories (new +
\* resumed) are as many as those with a completion, and no aborted probe is
\* without one.
C28_EmptyQueueMeansAllProbed ==
    (/\ pc \in {"cancel_decide", "final"}
     /\ run_info.empty_start /\ ~run_info.faulty
     /\ get_work_count(work_queue.rows, session_id) = 0)
        => /\ stats.new_searches + stats.resumed_searches = Cardinality(WithCompletion)
           /\ \A i \in DOMAIN tasks :
                 tasks[i].st = "aborted" => tasks[i].path \in WithCompletion

\* C29: an iteration of the main loop deletes the rows it has peeked, those
\* of skipped directories included, and no other row; with a non-empty peek
\* the queue is left strictly smaller than it was at the peek.
C29_DequeueRemovesExactlyPeeked ==
    [][Dequeue
          => LET peeked == {r \in work_queue.rows :
                              /\ r.session_id = session_id
                              /\ Cardinality({o \in work_queue.rows :
                                     /\ o.session_id = session_id
                                     /\ \/ o.priority > r.priority
                                        \/ o.priority = r.priority /\ o.id < r.id})
                                    < WORK_BATCH_SIZE}
             IN  /\ work_queue'.rows = work_queue.rows \ peeked
                 /\ work_queue'.seq = work_queue.seq
                 /\ peeked # {} => /\ work_queue'.rows \subseteq work_queue.rows
                                   /\ work_queue'.rows # work_queue.rows]_vars

\* C29, its case: an iteration has dequeued a directory of the running
\* session while the queue holds a row of another session, which stays.
C29_Witness ==
    /\ pc = "spawn" /\ items_to_process # << >>
    /\ \A r \in work_queue.rows : r.path # Head(items_to_process) \/ r.session_id # session_id
    /\ \E r \in work_queue.rows : r.session_id # session_id

\* The peeked items of the running session with a given status.
PeekedWith(statuses) ==
    LET items == peek_work_batch(work_queue.rows, session_id, WORK_BATCH_SIZE)
    IN  {i \in DOMAIN items : StatusOf(items[i].path) \in statuses}

\* C30: an iteration increments, for each peeked item, exactly one counter:
\* skipped_cached for Fresh (the item is not handed on), resumed_searches for
\* Incomplete, new_searches for NotCached and Stale (the item is handed on).
\* new + resumed + skipped grows by the number of rows dequeued, and by
\* nothing else but the credit given at the start of a resumed run;
\* get_total_searched grows by the number of items handed on.
C30_OneCounterPerItem ==
    [][/\ Dequeue
            => /\ stats'.skipped_cached = stats.skipped_cached + Cardinality(PeekedWith({"Fresh"}))
               /\ stats'.resumed_searches =
                     stats.resumed_searches + Cardinality(PeekedWith({"Incomplete"}))
               /\ stats'.new_searches =
                     stats.new_searches + Cardinality(PeekedWith({"NotCached", "Stale"}))
               /\ Searched(stats') =
                     Searched(stats) + Cardinality(work_queue.rows \ work_queue'.rows)
               /\ get_total_searched(stats') =
                     get_total_searched(stats) + Len(items_to_process')
               /\ \A i \in DOMAIN items_to_process' :
                     StatusOf(items_to_process'[i]) # "Fresh"
       /\ (~Dequeue /\ pc' # "idle")
            => /\ get_total_searched(stats') = get_total_searched(stats)
               /\ stats'.skipped_cached >= stats.skipped_cached
               /\ stats'.skipped_cached # stats.skipped_cached => pc = "startup"]_vars

\* C30, its case: the first iteration of a run within the window of an
\* earlier one has dequeued the root, found it Fresh, counted it as skipped
\* and handed nothing on.
C30_Witness ==
    /\ pc = "spawn" /\ items_to_process = << >> /\ tasks = << >>
    /\ stats.skipped_cached = 1
    /\ get_total_searched(stats) = 0
    /\ work_queue.rows = {}
    /\ StatusOf(opts.root) = "Fresh"

\* C31: mark_searching(path) leaves the row of path with search_completed
\* false and last_searched_at the clock reading, takes path out of the hot
\* set and changes nothing else: ds_store_found, ds_store_deleted and
\* error_message of a row that existed, every other row and every other
\* member of the hot set stay.
C31_MarkSearchingFrame ==
    [][\A p \in CachePaths :
          MarkSearching(p)
              => /\ DOMAIN directory_cache' = DOMAIN directory_cache \cup {p}
                 /\ ~directory_cache'[p].search_completed
                 /\ directory_cache'[p].last_searched_at = now
                 /\ p \in DOMAIN directory_cache
                       => /\ directory_cache'[p].ds_store_found
                               = directory_cache[p].ds_store_found
                          /\ directory_cache'[p].ds_store_deleted
                               = directory_cache[p].ds_store_deleted
                          /\ directory_cache'[p].error_message
                               = directory_cache[p].error_message
                 /\ \A o \in DOMAIN directory_cache \ {p} :
                       directory_cache'[o] = directory_cache[o]
                 /\ fresh_complete_dirs' = fresh_complete_dirs \ {p}]_vars

\* C31, its case: mark_searching was applied to a row that carried an error,
\* which it kept, while another path is in the hot set.
C31_Witness ==
    /\ pc = "cache"
    /\ \E p \in DOMAIN directory_cache :
          /\ ~directory_cache[p].search_completed
          /\ directory_cache[p].error_message # NULL
          /\ directory_cache[p].last_searched_at = now
          /\ p \notin fresh_complete_dirs
          /\ fresh_complete_dirs # {}

\* C32: a recursive deleting run from an empty cache is killed and the same
\* command line is run again within the window: every directory whose
\* probe the kill cut short, and whose row mark_searching had left
\* incomplete, is probed by the second run, so that no row is incomplete
\* when the second run has ended.
C32_CrashedProbeIsRedone ==
    (TwoRuns("crashed") /\ ~hist[1].opts.dry_run)
        => \A d \in DOMAIN directory_cache :
              \/ directory_cache[d].search_completed
              \/ directory_cache[d].error_message # NULL

\* C33: a probe whose path fails a pre-flight check (a system path, not a
\* directory, metadata that cannot be read, a symbolic link) appends one
\* completion row with search_completed true, ds_store_found false and the
\* error text of the check, posts no subdirectory and no match, and returns;
\* the error counter is incremented for the metadata failure alone.
C33_PreflightFailureRow ==
    [][\A i \in DOMAIN tasks :
          LET p == tasks[i].path
              text == CASE is_system_path(p)     -> "Skipped system/problematic directory"
                        [] PathKind(p) = "file"    -> "Not a directory"
                        [] PathKind(p) = "missing" -> "Cannot access directory"
                        [] PathKind(p) = "symlink" -> "Skipped symlink"
                        [] OTHER                   -> NULL
          IN  (ProbeRead(i) /\ text # NULL)
                 => /\ completed_dirs' =
                          Append(completed_dirs,
                                 [path |-> p, last_searched_at |-> now,
                                  search_completed |-> TRUE, ds_store_found |-> FALSE,
                                  ds_store_deleted |-> FALSE, error_message |-> text])
                    /\ UNCHANGED <<subdirs_queue, found_files>>
                    /\ stats' = [stats EXCEPT !.errors =
                                    @ + IF text = "Cannot access directory" THEN 1 ELSE 0]
                    /\ tasks'[i].st = "finished"
                    /\ p \notin processing_dirs']_vars

\* C33, its case: the probes of a symbolic link and of a path that cannot be
\* accessed have returned; each has left its row and one error is counted.
C33_Witness ==
    /\ pc = "probe"
    /\ Len(completed_dirs) = 2
    /\ {completed_dirs[k].error_message : k \in DOMAIN completed_dirs}
          = {"Skipped symlink", "Cannot access directory"}
    /\ stats.errors = 1
    /\ \A i \in DOMAIN tasks : tasks[i].st = "finished"

\* C34: a directory read that fails, when the directory is opened or while
\* its entries are read, counts one error and has the probe append a
\* completion row with search_completed false and the error.
C34_ReadFailureRow ==
    [][\A i \in DOMAIN tasks :
          /\ ProbeReadDirError(i)
                => /\ stats'.errors = stats.errors + 1
                   /\ ~tasks'[i].search_completed
                   /\ tasks'[i].error_message # NULL
          /\ (ProbeComplete(i) /\ tasks[i].error_message # NULL)
                => /\ Len(completed_dirs') = Len(completed_dirs) + 1
                   /\ ~completed_dirs'[Len(completed_dirs')].search_completed
                   /\ completed_dirs'[Len(completed_dirs')].path = tasks[i].path
          /\ \A pushed \in BOOLEAN :
                ProbeCutShort(i, FALSE, pushed)
                   => /\ stats'.errors = stats.errors + 1
                      /\ Len(completed_dirs') = Len(completed_dirs) + 1
                      /\ ~completed_dirs'[Len(completed_dirs')].search_completed
                      /\ completed_dirs'[Len(completed_dirs')].path = tasks[i].path]_vars

\* The tasks that have neither ended nor been aborted.
InFlight == {i \in DOMAIN tasks : tasks[i].st \notin {"finished", "aborted"}}

\* C35: within one run a probe is spawned for a path at most once, and no
\* two probes of one path are in flight together.
C35_OneProbePerPath ==
    [][/\ Len(tasks') > Len(tasks)
            => /\ tasks'[Len(tasks')].path \notin run_info.spawned
               /\ \A i \in DOMAIN tasks : tasks[i].path # tasks'[Len(tasks')].path
       /\ \A i, j \in InFlight : tasks[i].path = tasks[j].path => i = j]_vars

\* C35, its case: a recursive run has spawned one probe for each directory
\* of the tree and left its loop.
C35_Witness ==
    /\ pc = "final"
    /\ run_info.spawned = ReachableDirs
    /\ get_total_searched(stats) = Cardinality(ReachableDirs)

\* C36: the driver never holds more than TASK_BATCH_SIZE task handles: a
\* task is added only while it holds fewer, and with the cap reached it
\* awaits the end of one task before it spawns the next.
C36_TaskCap ==
    [][/\ Len(tasks) <= TASK_BATCH_SIZE
       /\ Len(tasks') > Len(tasks) => Len(tasks) < TASK_BATCH_SIZE
       /\ (pc = "spawn_wait" /\ Len(tasks) >= TASK_BATCH_SIZE)
             => Len(tasks') <= Len(tasks)]_vars

\* C36, its case: the driver found the cap reached, awaited one task and
\* spawned the probe of the waiting item, and holds TASK_BATCH_SIZE tasks.
C36_Witness ==
    /\ pc = "spawn"
    /\ Len(tasks) = TASK_BATCH_SIZE
    /\ Cardinality(run_info.spawned) > TASK_BATCH_SIZE
    /\ tasks[Len(tasks)].st = "running"
    /\ \E i \in DOMAIN tasks : i < Len(tasks) /\ tasks[i].st # "finished"

\* The paths whose directory-cache row a step writes (inserts or changes).
WrittenRows ==
    {p \in DOMAIN directory_cache' :
        p \notin DOMAIN directory_cache \/ directory_cache'[p] # directory_cache[p]}

\* C37: in a dry run every row a step writes has ds_store_deleted = false;
\* rows are written by the three flushes only, each with the batch's
\* ds_store_deleted forced to false; marking an item (mark_searching) and
\* the deletion step write nothing.
C37_DryRunNeverMarksDeleted ==
    [][opts.dry_run
          => /\ \A p \in WrittenRows : ~directory_cache'[p].ds_store_deleted
             /\ WrittenRows # {} => FlushCache \/ CancelFlush \/ FinalFlush
             /\ (FlushCache \/ CancelFlush \/ FinalFlush)
                   => directory_cache' =
                         mark_completed_batch_rows(directory_cache,
                                                   DryRunStates(completed_dirs))
             /\ (pc \in {"spawn", "spawn_wait", "delete"})
                   => directory_cache' = directory_cache]_vars

\* C37, its case: a deleting run removed /t/a/.DS_Store and marked /t/a
\* deleted; a later dry run probed /t/a again and its row now says not
\* deleted.
C37_Witness ==
    /\ pc = "delete" /\ opts.dry_run
    /\ Len(hist) = 2
    /\ ~hist[1].opts.dry_run
    /\ DsStore("/t/a") \in Range(hist[1].matches)
    /\ "/t/a" \in run_info.spawned
    /\ "/t/a" \in DOMAIN directory_cache
    /\ directory_cache["/t/a"].search_completed
    /\ ~directory_cache["/t/a"].ds_store_deleted

(***************************************************************************)
(* The found-match log on its own: sessions are started, resumed, marked   *)
(* and cleaned up, and lists of matches are appended, a match buffer that  *)
(* has grown since the last append and a list with a repeated path among   *)
(* them.                                                                   *)
(***************************************************************************)
FoundLogBatches ==
    {<<DsStore("/t/a")>>,
     <<DsStore("/t/a"), DsStore("/t/b/c")>>,
     <<DsStore("/t/b/c"), DsStore("/t/a"), DsStore("/t/a")>>}

NextFound ==
    \/ \E tr \in Triples : StartSession(tr)
    \/ \E tr \in Triples : ResumeSession(tr)
    \/ InterruptSession
    \/ CompleteSession
    \/ \E sid \in 1..MaxSessions, found \in FoundLogBatches : SaveFoundFiles(sid, found)
    \/ SessionTimePasses

SpecFound == InitSessions /\ [][NextFound]_vars

\* The (session, path) rows a list of matches stands for.
RowsFor(sid, found) ==
    {[session_id |-> sid, file_path |-> found[i]] : i \in DOMAIN found}

\* C38: the found-match log holds no (session, path) row twice; an append
\* leaves exactly the rows it found and the rows of its list; no step removes
\* a row of a session that is still in the session table; load returns the
\* paths of the session's rows, each once, and no other.
C38_FoundLogIsAppendOnlySet ==
    [][/\ NoDuplicates(found_files_tbl')
       /\ \A sid \in 1..MaxSessions, found \in FoundLogBatches :
             SaveFoundFiles(sid, found)
                => Range(found_files_tbl') = Range(found_files_tbl) \cup RowsFor(sid, found)
       /\ \A s \in DOMAIN search_sessions' :
             FoundRowsOf(found_files_tbl, s) \subseteq FoundRowsOf(found_files_tbl', s)
       /\ \A s \in 1..MaxSessions :
             LET loaded == load_found_files(found_files_tbl', s)
             IN  /\ NoDuplicates(loaded)
                 /\ Range(loaded) = {r.file_path : r \in FoundRowsOf(found_files_tbl', s)}]_vars

\* C38, its case: two sessions have rows; the first holds two paths after a
\* list with both was appended over rows it held already.
C38_Witness ==
    /\ hist # << >> /\ hist[1].call = "save_found_files"
    /\ {1, 2} \subseteq DOMAIN search_sessions
    /\ load_found_files(found_files_tbl, 1) = <<DsStore("/t/a"), DsStore("/t/b/c")>>
    /\ load_found_files(found_files_tbl, 2) = <<DsStore("/t/b/c"), DsStore("/t/a")>>
    /\ Len(found_files_tbl) = 4

\* C39: at the end of an iteration that flushed and drained, after the
\* cancellation path and after clean completion, every directory whose probe
\* ran to its end in this run and whose row is completed has each subdirectory
\* the probe discovered in the session's queue or dequeued by the session
\* (its probe spawned, or the item taken for spawning).
C39_CompletedRowHasChildrenTracked ==
    (pc \in {"reap", "delete"})
        => \A d \in probed \cap DOMAIN directory_cache :
              directory_cache[d].search_completed
                 => \A s \in Range(SubdirsOf(d, opts.recursive)) :
                       \/ Queued(work_queue, session_id, s)
                       \/ s \in run_info.spawned
                       \/ s \in Range(items_to_process)

\* The first run was a run without --recursive that ended completed, no
\* probe of it failing, and no time has passed since.
NonRecursiveRunDone ==
    /\ Len(hist) >= 1
    /\ ~hist[1].opts.recursive
    /\ hist[1].outcome = "completed"
    /\ ~hist[1].info.faulty
    /\ hist[1].stats.new_searches = 1
    /\ ticks = 0

\* C40: after such a run, a run with --recursive over the same root within
\* the window finds the root Fresh from the row the first session wrote: it
\* counts it as skipped, spawns no probe, and neither posts nor enqueues a
\* subdirectory.
C40_RowOfNonRecursiveRunIsFresh ==
    (/\ NonRecursiveRunDone
     /\ runs = 2 /\ opts.recursive /\ ~opts.force
     /\ pc \notin {"idle", "startup"})
        => /\ StatusOf(Root) = "Fresh"
           /\ run_info.spawned = {}
           /\ stats.new_searches = 0 /\ stats.resumed_searches = 0
           /\ subdirs_queue = << >>
           /\ \A r \in work_queue.rows : r.session_id = session_id => r.path = Root
           /\ (pc = "delete" /\ ~cancelled) => stats.skipped_cached = 1

\* C40, its case: the recursive run after the non-recursive one has ended
\* completed with the root skipped and nothing searched, while the
\* subdirectories of the root have no row.
C40_Witness ==
    /\ NonRecursiveRunDone
    /\ runs = 2 /\ opts.recursive /\ ~opts.force
    /\ pc = "delete" /\ ~cancelled
    /\ stats.skipped_cached = 1 /\ get_total_searched(stats) = 0
    /\ session_id # hist[1].sid
    /\ DOMAIN directory_cache = {Root}

====
